---- MODULE Spec2Model ----
(***************************************************************************)
(* The two WebSocket proxy endpoints of app/websocket/routes.py, /proxy    *)
(* and /call, as one state machine.  Every connection runs one handler     *)
(* coroutine; an action is the code a handler runs between two awaits of   *)
(* the single-threaded event loop.  client_id is f"..._{id(websocket)}",   *)
(* unique among live sockets, so a connection number stands for both the   *)
(* socket object and its client_id.                                        *)
(*                                                                         *)
(* Byte strings are sequences of segments; a segment carries its length,   *)
(* so that buffer sizes and thresholds keep the values of the source.      *)
(***************************************************************************)
EXTENDS Integers, Sequences, FiniteSets, TLC

\* ------------------------------------------------------------------ bounds
NConns == 3
MaxMsgs == 2
MaxClosing == 1
MaxClients == 2

Conns == 1..NConns
None == 0

\* ------------------------------------------------------- program constants
\* frame_size_20ms * 25 = 16000 * 2 * 1 * 0.02 * 25
target_chunk_size == 16000
\* len(call_audio_buffers[call_id]) >= 16384
call_chunk_size == 16384
\* len(call_output_buffers[call_id]) >= 12880
call_output_threshold == 12880
\* the header wave.open(..., 'wb') writes before the frames
WavHeaderLen == 44
\* binary_data[:16]
IdLen == 16

\* ------------------------------------------------------------ identifiers
\* An identifier string is <<form, n>>: "canon" is the lowercase 8-4-4-4-12
\* rendering of the 128-bit value n, "alt" another spelling uuid.UUID()
\* accepts (upper case, no dashes, braces), "bad" a string it rejects.
Absent == <<"absent", 0>>
Canon(n) == <<"canon", n>>

\* uuid.UUID(s): whether the constructor accepts s
UUIDParses(s) == s[1] \in {"canon", "alt"}
\* uuid.UUID(s).bytes: the 16 bytes, as the 128-bit value
UUIDBytes(s) == s[2]
\* str(uuid.UUID(bytes=b))
UUIDStr(b) == Canon(b)
\* str(uuid.uuid4()) in the handler of connection c: one draw per handler
uuid4(c) == Canon(c)

\* ------------------------------------------------------------------- maps
EmptyMap == [x \in {} |-> 0]
Put(f, k, v) == [x \in DOMAIN f \cup {k} |-> IF x = k THEN v ELSE f[x]]
Del(f, k) == [x \in DOMAIN f \ {k} |-> f[x]]
\* {**d, **o}
Merge(d, o) == [k \in DOMAIN d \cup DOMAIN o |-> IF k \in DOMAIN o THEN o[k] ELSE d[k]]

RECURSIVE ByteLen(_)
\* len(buffer): the sum of the segments' lengths
ByteLen(b) == IF b = <<>> THEN 0 ELSE Head(b).len + ByteLen(Tail(b))

VARIABLES
    pc,                     \* each handler's position
    path,                   \* the route each socket connected to
    open,                   \* the peer has not closed the socket
    closed,                 \* the handler called websocket.close()
    wire,                   \* frames the server wrote on each socket, in order
    nmsg,                   \* messages the handlers' loops have consumed so far
    nsent,                  \* binary frames each client handler has taken from its socket
    local_id,               \* the handler's local session_id / call_id
    init_data,              \* the handler's local init_data: its handshake message
    pending,                \* the frame of the send a handler is suspended in
    frontend_clients, ai_backend, session_to_client, client_to_session,
    session_audio_buffers,
    call_freeswitch_clients, call_ai_backend, call_to_client, client_to_call,
    call_audio_buffers, call_audio_configs, call_output_buffers,
    wav_in,                 \* the arguments of a container synthesis
    wav_out,                \* the container it returned or wrote
    response,               \* the body POST /call/cleanup answered with
    cleanup_task            \* the position of a POST /call/cleanup in progress

connVars == <<pc, path, open, closed, wire, nmsg, nsent, local_id, init_data, pending>>
proxyVars == <<frontend_clients, ai_backend, session_to_client, client_to_session,
               session_audio_buffers>>
callVars == <<call_freeswitch_clients, call_ai_backend, call_to_client, client_to_call,
              call_audio_buffers, call_audio_configs, call_output_buffers>>
fnVars == <<wav_in, wav_out, response, cleanup_task>>
vars == <<connVars, proxyVars, callVars, fnVars>>

NoFrame == [type |-> "none"]
NoInit == [client_type |-> "none", call_id |-> Absent, audio_config |-> EmptyMap]
NoWav == [fn |-> "none"]
NoResponse == [status |-> "none"]
NoTask == [at |-> "idle"]

\* no socket has connected, no backend and no /proxy client is registered
InitSockets ==
    /\ pc = [c \in Conns |-> "idle"]
    /\ path = [c \in Conns |-> "none"]
    /\ open = [c \in Conns |-> FALSE]
    /\ closed = [c \in Conns |-> FALSE]
    /\ wire = [c \in Conns |-> <<>>]
    /\ nmsg = 0
    /\ nsent = [c \in Conns |-> 0]
    /\ local_id = [c \in Conns |-> Absent]
    /\ init_data = [c \in Conns |-> NoInit]
    /\ pending = [c \in Conns |-> NoFrame]
    /\ frontend_clients = {}
    /\ ai_backend = None
    /\ session_to_client = EmptyMap
    /\ client_to_session = EmptyMap
    /\ session_audio_buffers = EmptyMap
    /\ call_ai_backend = None

\* the /call registries are empty
InitCallRegistry ==
    /\ call_freeswitch_clients = {}
    /\ call_to_client = EmptyMap
    /\ client_to_call = EmptyMap
    /\ call_audio_buffers = EmptyMap
    /\ call_audio_configs = EmptyMap
    /\ call_output_buffers = EmptyMap

\* no socket has connected and every registry is empty
InitRoutes == InitSockets /\ InitCallRegistry

Init ==
    /\ InitRoutes
    /\ wav_in = NoWav
    /\ wav_out = NoWav
    /\ response = NoResponse
    /\ cleanup_task = NoTask


\* ---------------------------------------------------------------- sockets
\* the sockets that have registered as a client so far
NClients == Cardinality({c \in Conns : local_id[c] # Absent})

\* await ws.send_text / send_bytes that returned: the frame is on the wire
Sent(w, c, f) == [w EXCEPT ![c] = Append(@, f)]

ErrorFrame == [type |-> "error"]
HeartbeatAck == [type |-> "heartbeat_ack"]

\* the handler function returned or raised out of the endpoint
Exit(p, c) == [p EXCEPT ![c] = "done"]
\* the server closes a socket when its endpoint function has ended
Closing(c) == open' = IF pc'[c] = "done" THEN [open EXCEPT ![c] = FALSE] ELSE open

\* the handshake messages: a client_type ("absent": no such key) and, from a
\* freeswitch client, a call_id and an audio_config
Handshake(t, id, cfg) == [client_type |-> t, call_id |-> id, audio_config |-> cfg]
\* sizes of the binary frames a client sends
FrameSizes == {8192}

\* a client frame of n bytes, the k-th message of connection c
ClientBytes(c, k, n) == <<[kind |-> "data", len |-> n, src |-> c, k |-> k]>>

\* the header of a PCM container, as struct.pack lays it out: 'RIFF', the chunk
\* size 36 + data_length and 'WAVE' (12 bytes), the fmt chunk (24 bytes),
\* 'data' and data_length (8 bytes)
WavHeader(nchannels, framerate, sampwidth, data_length) ==
    [kind |-> "hdr", len |-> 12 + 24 + 8, riff |-> 36 + data_length,
     rate |-> framerate, channels |-> nchannels, width |-> sampwidth,
     byte_rate |-> nchannels * framerate * sampwidth,
     block_align |-> nchannels * sampwidth, datalen |-> data_length]

\* a PCM container the backend sends: its header, then n bytes of frames
Container(k, n) ==
    <<WavHeader(1, 24000, 2, n),
      [kind |-> "data", len |-> n, src |-> None, k |-> k]>>

\* sizes of the sample data of the containers the backend sends
ContainerSizes == {6440}

\* the 128-bit values the backend addresses frames to
BackendIds == {1, 2}

\* the 16 bytes of the 128-bit value n
IdBytes(n) == <<[kind |-> "id", len |-> IdLen, val |-> n]>>

\* len(binary_data) >= 16: the test of a reader that takes a frame of the id alone
HasPayload_Inclusive(binary_data) == ByteLen(binary_data) >= IdLen

\* len(binary_data) > 16
HasPayload(binary_data) == ByteLen(binary_data) > IdLen

\* what the backend sends after its handshake: a heartbeat, a text frame that
\* is not JSON or lacks the fields, a text message for an id, a binary frame of
\* 8 bytes, a binary frame of the 16 bytes of an id, a binary frame
\* id(16) + container
BackendMsgs(k) ==
    {[kind |-> "heartbeat"], [kind |-> "junk"]}
    \cup {[kind |-> "text", id |-> s] :
             s \in {Canon(n) : n \in BackendIds} \cup {<<"alt", 1>>, <<"bad", 0>>}}
    \cup {[kind |-> "bytes", data |-> <<[kind |-> "data", len |-> 8, src |-> None, k |-> k]>>]}
    \cup {[kind |-> "bytes", data |-> IdBytes(n)] : n \in BackendIds}
    \cup {[kind |-> "bytes", data |-> IdBytes(n) \o Container(k, sz)] :
             n \in BackendIds, sz \in ContainerSizes}

\* socket -> accepted, awaiting the handshake message.  Sockets are numbered in
\* the order they connect.  The two routes share no variable, so a run with
\* sockets on both is an interleaving of a run of each: runs are explored with
\* all sockets on one route.
Connect(c, p) ==
    /\ pc[c] = "idle"
    /\ \A d \in Conns : d < c => pc[d] # "idle"
    /\ \A d \in Conns : path[d] \in {"none", p}
    /\ pc' = [pc EXCEPT ![c] = "init"]
    /\ path' = [path EXCEPT ![c] = p]
    /\ open' = [open EXCEPT ![c] = TRUE]
    /\ UNCHANGED <<closed, wire, nmsg, nsent, local_id, init_data, pending, proxyVars, callVars,
                   fnVars>>

\* the peer of a registered socket closes its end: the handler's next receive
\* on it, and every send on it, fails.  At most MaxClosing sockets are closed
\* by their peers and not yet noticed by their handlers.
PeerClose(c) ==
    /\ pc[c] \notin {"idle", "init", "done"}
    /\ open[c]
    /\ Cardinality({d \in Conns : pc[d] \notin {"idle", "done"} /\ ~open[d]}) < MaxClosing
    /\ open' = [open EXCEPT ![c] = FALSE]
    /\ UNCHANGED <<pc, path, fnVars, closed, wire, nmsg, nsent, local_id, init_data, pending, proxyVars, callVars>>

\* ------------------------------------------------------------------ /proxy
\* send the typed error, close, return
ProxyReject(c) ==
    /\ wire' = Sent(wire, c, ErrorFrame)
    /\ closed' = [closed EXCEPT ![c] = TRUE]
    /\ pc' = Exit(pc, c)
    /\ UNCHANGED <<path, fnVars, nsent, nmsg, local_id, pending, proxyVars, callVars>>
    /\ Closing(c)

\* ai_backend = websocket
ProxyRegisterBackend(c) ==
    /\ ai_backend' = c
    /\ pc' = [pc EXCEPT ![c] = "b_recv"]
    /\ UNCHANGED <<path, fnVars, nsent, closed, wire, nmsg, local_id, pending,
                   frontend_clients, session_to_client, client_to_session,
                   session_audio_buffers, callVars>>
    /\ Closing(c)

\* the frontend branch up to the await of the session_info send
ProxyRegisterFrontend(c) ==
    LET session_id == uuid4(c) IN
    /\ NClients < MaxClients
    /\ frontend_clients' = frontend_clients \cup {c}
    /\ session_to_client' = Put(session_to_client, session_id, c)
    /\ client_to_session' = Put(client_to_session, c, session_id)
    /\ session_audio_buffers' = Put(session_audio_buffers, session_id, <<>>)
    /\ local_id' = [local_id EXCEPT ![c] = session_id]
    /\ pc' = [pc EXCEPT ![c] = "f_info"]
    /\ UNCHANGED <<path, fnVars, nsent, closed, wire, nmsg, pending, ai_backend, callVars>>
    /\ Closing(c)

\* the first message of a /proxy socket, up to the first await after it
ProxyHandshake(c, message) ==
    /\ pc[c] = "init"
    /\ path[c] = "proxy"
    /\ init_data' = [init_data EXCEPT ![c] = message]
    /\ LET client_type == message.client_type IN
       IF client_type = "absent" THEN ProxyReject(c)
       ELSE IF client_type = "ai_backend"
            THEN IF ai_backend # None THEN ProxyReject(c) ELSE ProxyRegisterBackend(c)
       ELSE IF client_type = "frontend" THEN ProxyRegisterFrontend(c)
       ELSE ProxyReject(c)

\* await websocket.send_text(session_info) returns or raises; it is outside
\* the try whose finally cleans up, so a failure goes to the endpoint's
\* except Exception, which only closes
ProxySessionInfo(c) ==
    /\ pc[c] = "f_info"
    /\ IF open[c]
       THEN /\ wire' = Sent(wire, c, [type |-> "session_info",
                                      session_id |-> local_id[c], client_id |-> c])
            /\ pc' = [pc EXCEPT ![c] = "f_recv"]
            /\ UNCHANGED closed
       ELSE /\ closed' = [closed EXCEPT ![c] = TRUE]
            /\ pc' = Exit(pc, c)
            /\ UNCHANGED wire
    /\ UNCHANGED <<path, fnVars, nsent, nmsg, local_id, init_data, pending, proxyVars, callVars>>
    /\ Closing(c)

\* a finally that leaves the module-level reference as it is
ProxyBackendFinally_Keeps(c) ==
    /\ UNCHANGED ai_backend
    /\ pc' = Exit(pc, c)

\* the finally of the ai_backend branch
ProxyBackendFinally(c) ==
    /\ ai_backend' = None
    /\ pc' = Exit(pc, c)

\* a lookup that takes any registered client for the one addressed
ProxyRoute_Any(session_id) ==
    IF frontend_clients # {} THEN CHOOSE c \in frontend_clients : TRUE ELSE None

\* socket of the client a session id routes to, or None
ProxyRoute(session_id) ==
    IF session_id \in DOMAIN session_to_client
       /\ session_to_client[session_id] \in frontend_clients
    THEN session_to_client[session_id] ELSE None

\* one iteration of the ai_backend loop, up to its first await
ProxyBackendRecv(c, message) ==
    /\ pc[c] = "b_recv"
    /\ path[c] = "proxy"
    /\ UNCHANGED <<path, fnVars, nsent, closed, local_id, init_data, frontend_clients, session_to_client,
                   client_to_session, session_audio_buffers, callVars>>
    /\ IF ~open[c]
       THEN \* disconnect: the loop ends and the finally runs
            /\ ProxyBackendFinally(c)
            /\ UNCHANGED <<wire, nmsg, pending>>
       ELSE
         /\ CASE message.kind = "heartbeat" ->
                   \* await ai_backend.send_text(heartbeat_ack): on the global
                   /\ pending' = [pending EXCEPT ![c] = [type |-> "send", to |-> ai_backend,
                                                         frame |-> HeartbeatAck]]
                   /\ pc' = [pc EXCEPT ![c] = "b_ack"]
                   /\ nmsg' = nmsg + 1
                   /\ UNCHANGED <<wire, ai_backend>>
              [] message.kind = "text" ->
                   IF ~UUIDParses(message.id)
                   THEN \* uuid.UUID raises ValueError, which except
                        \* json.JSONDecodeError does not catch: the reader ends
                        /\ ProxyBackendFinally(c)
                        /\ UNCHANGED <<wire, nmsg, pending>>
                   ELSE LET session_id == UUIDStr(UUIDBytes(message.id))
                            to == ProxyRoute(session_id) IN
                        IF to = None
                        THEN UNCHANGED <<pc, wire, nmsg, pending, ai_backend>>
                        ELSE IF open[to]
                        THEN /\ wire' = Sent(wire, to, [type |-> "text", k |-> nmsg])
                             /\ nmsg' = nmsg + 1
                             /\ UNCHANGED <<pc, pending, ai_backend>>
                        ELSE \* send_text raises: nothing catches it in the loop
                             /\ ProxyBackendFinally(c)
                             /\ UNCHANGED <<wire, nmsg, pending>>
              [] message.kind = "bytes" /\ HasPayload(message.data) ->
                   LET binary_data == message.data
                       session_id == UUIDStr(Head(binary_data).val)
                       audio_data == Tail(binary_data)
                       to == ProxyRoute(session_id) IN
                   IF to # None /\ open[to]
                   THEN /\ wire' = Sent(wire, to, [type |-> "bytes", data |-> audio_data])
                        /\ nmsg' = nmsg + 1
                        /\ UNCHANGED <<pc, pending, ai_backend>>
                   ELSE \* routing miss, or the send raised and was logged
                        UNCHANGED <<pc, wire, nmsg, pending, ai_backend>>
              [] OTHER ->
                   \* not JSON, no type / session_id, or a binary frame of <= 16 bytes
                   UNCHANGED <<pc, wire, nmsg, pending, ai_backend>>
    /\ Closing(c)

\* an acknowledgement that is written twice
ProxyBackendAck_Twice(c) ==
    /\ pc[c] = "b_ack"
    /\ path[c] = "proxy"
    /\ pending' = [pending EXCEPT ![c] = NoFrame]
    /\ IF pending[c].to # None /\ open[pending[c].to]
       THEN /\ wire' = Sent(Sent(wire, pending[c].to, pending[c].frame),
                            pending[c].to, pending[c].frame)
            /\ pc' = [pc EXCEPT ![c] = "b_recv"]
            /\ UNCHANGED ai_backend
       ELSE /\ ProxyBackendFinally(c)
            /\ UNCHANGED wire
    /\ UNCHANGED <<path, fnVars, nsent, closed, nmsg, local_id, init_data, frontend_clients,
                   session_to_client, client_to_session, session_audio_buffers, callVars>>
    /\ Closing(c)

\* the heartbeat_ack send returns or raises
ProxyBackendAck(c) ==
    /\ pc[c] = "b_ack"
    /\ path[c] = "proxy"
    /\ pending' = [pending EXCEPT ![c] = NoFrame]
    /\ IF pending[c].to # None /\ open[pending[c].to]
       THEN /\ wire' = Sent(wire, pending[c].to, pending[c].frame)
            /\ pc' = [pc EXCEPT ![c] = "b_recv"]
            /\ UNCHANGED ai_backend
       ELSE /\ ProxyBackendFinally(c)
            /\ UNCHANGED wire
    /\ UNCHANGED <<path, fnVars, nsent, closed, nmsg, local_id, init_data, frontend_clients, session_to_client,
                   client_to_session, session_audio_buffers, callVars>>

    /\ Closing(c)

\* the finally of the frontend branch
ProxyFrontendFinally(c) ==
    /\ frontend_clients' = frontend_clients \ {c}
    /\ IF c \in DOMAIN client_to_session
       THEN LET session_id == client_to_session[c] IN
            /\ session_to_client' = Del(session_to_client, session_id)
            /\ session_audio_buffers' = Del(session_audio_buffers, session_id)
            /\ client_to_session' = Del(client_to_session, c)
       ELSE UNCHANGED <<session_to_client, session_audio_buffers, client_to_session>>
    /\ pc' = Exit(pc, c)

\* chunk_size = 5120
touch_chunk_size == 5120
\* the touch-sound directory: whether it exists, and the frame bytes of the
\* .wav files in it
TouchDirs ==
    {[exists |-> FALSE, wavs |-> {}], [exists |-> TRUE, wavs |-> {}],
     [exists |-> TRUE, wavs |-> {5120}]}

\* the lengths of the audio_data get_touch_audio_data can return, 0 for None:
\* None without the directory or without a .wav file in it, else the frames
\* of the file random.choice picks
get_touch_audio_data(touch_dir) ==
    IF ~touch_dir.exists THEN {0}
    ELSE IF touch_dir.wavs = {} THEN {0}
    ELSE touch_dir.wavs

\* len(audio_data) of the file get_touch_audio_data picked; 0 when it returned None
TouchSizes == UNION {get_touch_audio_data(d) : d \in TouchDirs}

\* what a client sends after its handshake
ClientMsgs ==
    {[kind |-> "bytes", len |-> n] : n \in FrameSizes}
    \cup {[kind |-> "audio_complete"], [kind |-> "junk"]}
    \cup {[kind |-> "touch", len |-> n] : n \in TouchSizes}

\* session_id_bytes + complete_audio_data
WithId(id, data) == IdBytes(UUIDBytes(id)) \o data

\* one iteration of the frontend loop, up to its first await after the receive
ProxyClientRecv(c, message) ==
    /\ pc[c] = "f_recv"
    /\ UNCHANGED <<path, fnVars, closed, local_id, init_data, ai_backend, callVars>>
    /\ nsent' = IF open[c] /\ message.kind = "bytes" THEN [nsent EXCEPT ![c] = @ + 1]
                ELSE nsent
    /\ IF ~open[c]
       THEN \* the receive fails: the loop ends and the finally runs
            /\ ProxyFrontendFinally(c)
            /\ UNCHANGED <<wire, nmsg, pending>>
       ELSE
         /\ UNCHANGED <<wire, frontend_clients, session_to_client, client_to_session>>
         /\ LET session_id == local_id[c] IN
            CASE message.kind = "bytes" ->
                   LET buf == session_audio_buffers[session_id]
                                \o ClientBytes(c, nsent[c], message.len) IN
                   /\ session_audio_buffers' = Put(session_audio_buffers, session_id, buf)
                   /\ nmsg' = nmsg + 1
                   /\ IF ByteLen(buf) >= target_chunk_size /\ ai_backend # None
                      THEN /\ pending' = [pending EXCEPT ![c] =
                                 [type |-> "send", to |-> ai_backend,
                                  frame |-> [type |-> "bytes", data |-> WithId(session_id, buf)]]]
                           /\ pc' = [pc EXCEPT ![c] = "f_send"]
                      ELSE UNCHANGED <<pc, pending>>
              [] message.kind = "audio_complete" ->
                   IF ByteLen(session_audio_buffers[session_id]) > 0 /\ ai_backend # None
                   THEN /\ pending' = [pending EXCEPT ![c] =
                              [type |-> "send", to |-> ai_backend,
                               frame |-> [type |-> "bytes",
                                          data |-> WithId(session_id,
                                                          session_audio_buffers[session_id])]]]
                        /\ pc' = [pc EXCEPT ![c] = "f_send"]
                        /\ nmsg' = nmsg + 1
                        /\ UNCHANGED session_audio_buffers
                   ELSE UNCHANGED <<pc, nmsg, pending, session_audio_buffers>>
              [] message.kind = "touch" /\ message.len > 0 ->
                   /\ pending' = [pending EXCEPT ![c] =
                         [type |-> "touch", len |-> message.len, at |-> 0]]
                   /\ pc' = [pc EXCEPT ![c] = "f_touch"]
                   /\ nmsg' = nmsg + 1
                   /\ UNCHANGED session_audio_buffers
              [] OTHER ->
                   \* a timeout, text that is not a command, a touch without audio
                   UNCHANGED <<pc, nmsg, pending, session_audio_buffers>>
    /\ Closing(c)

\* a send after which the buffer is left as it was
ProxyClientSent_Keeps(c) ==
    /\ pc[c] = "f_send"
    /\ wire' = IF open[pending[c].to] THEN Sent(wire, pending[c].to, pending[c].frame)
               ELSE wire
    /\ pending' = [pending EXCEPT ![c] = NoFrame]
    /\ pc' = [pc EXCEPT ![c] = "f_recv"]
    /\ UNCHANGED <<path, fnVars, nsent, closed, nmsg, local_id, init_data, proxyVars, callVars>>
    /\ Closing(c)

\* await ai_backend.send_bytes(data_with_session) returns, or raises and is
\* logged; then session_audio_buffers[session_id] = bytearray()
ProxyClientSent(c) ==
    /\ pc[c] = "f_send"
    /\ wire' = IF open[pending[c].to] THEN Sent(wire, pending[c].to, pending[c].frame)
               ELSE wire
    /\ session_audio_buffers' = Put(session_audio_buffers, local_id[c], <<>>)
    /\ pending' = [pending EXCEPT ![c] = NoFrame]
    /\ pc' = [pc EXCEPT ![c] = "f_recv"]
    /\ UNCHANGED <<path, fnVars, nsent, closed, nmsg, local_id, init_data, frontend_clients, ai_backend,
                   session_to_client, client_to_session, callVars>>
    /\ Closing(c)

\* one round of the touch loop: send_bytes(audio_data[i:i+chunk_size]), then
\* the 50 ms sleep; a failed send ends the handler through the finally
ProxyTouchChunk(c) ==
    /\ pc[c] = "f_touch"
    /\ UNCHANGED <<path, fnVars, nsent, closed, nmsg, local_id, init_data, ai_backend, callVars>>
    /\ LET i == pending[c].at
           n == IF pending[c].len - i < touch_chunk_size THEN pending[c].len - i
                ELSE touch_chunk_size IN
       IF open[c]
       THEN /\ wire' = Sent(wire, c, [type |-> "bytes",
                                      data |-> <<[kind |-> "touch", len |-> n, at |-> i]>>])
            /\ IF i + touch_chunk_size < pending[c].len
               THEN /\ pending' = [pending EXCEPT ![c].at = i + touch_chunk_size]
                    /\ UNCHANGED pc
               ELSE /\ pending' = [pending EXCEPT ![c] = NoFrame]
                    /\ pc' = [pc EXCEPT ![c] = "f_recv"]
            /\ UNCHANGED proxyVars
       ELSE /\ ProxyFrontendFinally(c)
            /\ pending' = [pending EXCEPT ![c] = NoFrame]
            /\ UNCHANGED <<wire, ai_backend>>

    /\ Closing(c)

\* ------------------------------------------------------------------- /call
\* wave.open(io.BytesIO(b), 'rb') accepts b: it starts with a container header
WavParses(b) == b # <<>> /\ Head(b).kind = "hdr"
\* new_wav.readframes(new_wav.getnframes()): the bytes after the header
ReadFrames(b) == Tail(b)

\* a merge that puts the new chunk's frames in front of the buffered ones
merge_wav_audio_data_Prepend(existing_data, new_audio_data) ==
    IF ByteLen(existing_data) = 0 THEN new_audio_data
    ELSE IF WavParses(new_audio_data) THEN ReadFrames(new_audio_data) \o existing_data
    ELSE new_audio_data \o existing_data

merge_wav_audio_data(existing_data, new_audio_data) ==
    IF ByteLen(existing_data) = 0 THEN new_audio_data
    ELSE IF WavParses(new_audio_data) THEN existing_data \o ReadFrames(new_audio_data)
    ELSE existing_data \o new_audio_data

\* a writer that leaves the header as _write_header wrote it: the data length
\* of the whole frames
create_wav_from_frames_Unpatched(audio_frames, sample_rate, channels, sample_width) ==
    LET framesize == channels * sample_width
        datalength == (ByteLen(audio_frames) \div framesize) * framesize IN
    <<WavHeader(channels, sample_rate, sample_width, datalength)>> \o audio_frames

\* wave.open(wav_io, 'wb'), the three setters, writeframes(audio_frames):
\* _write_header declares the length of the whole frames, writeframesraw
\* writes every byte, and _patchheader rewrites both lengths when they differ
create_wav_from_frames(audio_frames, sample_rate, channels, sample_width) ==
    LET framesize == channels * sample_width
        datawritten == ByteLen(audio_frames)
        datalength == (datawritten \div framesize) * framesize
        patched == IF datalength # datawritten THEN datawritten ELSE datalength IN
    <<WavHeader(channels, sample_rate, sample_width, patched)>> \o audio_frames

\* AudioReceiver.create_wav_header: 16-bit samples
create_wav_header(self, data_length) ==
    WavHeader(self.channels, self.sample_rate, 2, data_length)

\* base64.b64encode(b).decode('utf-8')
b64encode(b) == [b64 |-> b]

default_config == [audioDataType |-> "raw", sampleRate |-> 16000, channels |-> 1,
                   bitDepth |-> 16]
supported_formats == {"raw", "wav", "mp3", "ogg"}

\* the call_id field of a freeswitch handshake
CallIdInputs == {Absent, Canon(1), <<"alt", 1>>, <<"bad", 0>>}
\* the audio_config field of a freeswitch handshake ({} when absent)
AudioConfigInputs == {EmptyMap, [audioDataType |-> "flac"]}

\* the first messages sent to /proxy
ProxyHandshakeMsgs ==
    {Handshake(t, Absent, EmptyMap) : t \in {"ai_backend", "frontend", "freeswitch", "absent"}}

\* the first messages sent to /call
CallHandshakeMsgs ==
    {Handshake(t, Absent, EmptyMap) : t \in {"ai_backend", "frontend", "absent"}}
    \cup {Handshake("freeswitch", id, EmptyMap) : id \in CallIdInputs}
    \cup {Handshake("freeswitch", Canon(1), cfg) : cfg \in AudioConfigInputs}

\* the streamAudio envelope around a container
StreamAudio(audio_config, wav) ==
    [type |-> "streamAudio",
     data |-> [audioDataType |-> "wav", sampleRate |-> audio_config.sampleRate,
               channels |-> audio_config.channels, bitDepth |-> audio_config.bitDepth,
               audioData |-> b64encode(wav)]]

\* a rejection that closes without the typed error
CallReject_NoFrame(c) ==
    /\ closed' = [closed EXCEPT ![c] = TRUE]
    /\ pc' = Exit(pc, c)
    /\ UNCHANGED <<path, fnVars, nsent, wire, nmsg, local_id, pending, proxyVars, callVars>>
    /\ Closing(c)

\* send the typed error, close, return
CallReject(c) ==
    /\ wire' = Sent(wire, c, ErrorFrame)
    /\ closed' = [closed EXCEPT ![c] = TRUE]
    /\ pc' = Exit(pc, c)
    /\ UNCHANGED <<path, fnVars, nsent, nmsg, local_id, pending, proxyVars, callVars>>
    /\ Closing(c)

\* a second ai_backend: logged, closed, return
CallRejectBackend(c) ==
    /\ closed' = [closed EXCEPT ![c] = TRUE]
    /\ pc' = Exit(pc, c)
    /\ UNCHANGED <<path, fnVars, nsent, wire, nmsg, local_id, pending, proxyVars, callVars>>
    /\ Closing(c)

\* call_ai_backend = websocket
CallRegisterBackend(c) ==
    /\ call_ai_backend' = c
    /\ pc' = [pc EXCEPT ![c] = "b_recv"]
    /\ UNCHANGED <<path, fnVars, nsent, closed, wire, nmsg, local_id, pending, proxyVars,
                   call_freeswitch_clients, call_to_client, client_to_call,
                   call_audio_buffers, call_audio_configs, call_output_buffers>>
    /\ Closing(c)

\* the freeswitch branch from the registration to the await of the welcome
\* send; open("welcome.wav") raising goes to the endpoint's except Exception
CallRegisterFreeswitch(c, call_id, final_audio_config, welcome_ok) ==
    /\ NClients < MaxClients
    /\ call_freeswitch_clients' = call_freeswitch_clients \cup {c}
    /\ call_to_client' = Put(call_to_client, call_id, c)
    /\ client_to_call' = Put(client_to_call, c, call_id)
    /\ call_audio_configs' = Put(call_audio_configs, call_id, final_audio_config)
    /\ call_audio_buffers' = Put(call_audio_buffers, call_id, <<>>)
    /\ local_id' = [local_id EXCEPT ![c] = call_id]
    /\ IF welcome_ok
       THEN /\ pc' = [pc EXCEPT ![c] = "c_welcome"]
            /\ UNCHANGED closed
       ELSE /\ pc' = Exit(pc, c)
            /\ closed' = [closed EXCEPT ![c] = TRUE]
    /\ UNCHANGED <<path, fnVars, nsent, wire, nmsg, pending, proxyVars, call_ai_backend,
                   call_output_buffers>>
    /\ Closing(c)

\* the first message of a /call socket, up to the first await after it
CallHandshake(c, message, welcome_ok) ==
    /\ pc[c] = "init"
    /\ path[c] = "call"
    /\ init_data' = [init_data EXCEPT ![c] = message]
    /\ IF message.client_type = "absent" THEN CallReject(c)
       ELSE IF message.client_type = "ai_backend"
            THEN IF call_ai_backend # None THEN CallRejectBackend(c)
                 ELSE CallRegisterBackend(c)
       ELSE IF message.client_type = "freeswitch"
            THEN LET call_id == IF message.call_id # Absent THEN message.call_id
                                ELSE uuid4(c)
                     final_audio_config == Merge(default_config, message.audio_config) IN
                 IF final_audio_config.audioDataType \notin supported_formats
                 THEN CallReject(c)
                 ELSE CallRegisterFreeswitch(c, call_id, final_audio_config, welcome_ok)
       ELSE CallReject(c)

\* the finally of the freeswitch branch, with the inbound buffers as the loop
\* left them.  The flush of the remaining output
\* buffer is sent only if client_id is still in call_freeswitch_clients, which
\* the first statement of the finally has just deleted it from.
CallClientFinally(c, buffers) ==
    LET clients == call_freeswitch_clients \ {c} IN
    /\ call_freeswitch_clients' = clients
    /\ IF c \in DOMAIN client_to_call
       THEN LET call_id == client_to_call[c]
                flush == /\ call_id \in DOMAIN call_output_buffers
                         /\ ByteLen(call_output_buffers[call_id]) > 0
                         /\ c \in clients
                         /\ open[c] IN
            /\ call_to_client' = Del(call_to_client, call_id)
            /\ call_audio_buffers' = Del(buffers, call_id)
            /\ wire' = IF flush
                       THEN LET audio_config ==
                                    IF call_id \in DOMAIN call_audio_configs
                                    THEN call_audio_configs[call_id]
                                    ELSE [audioDataType |-> "wav", sampleRate |-> 24000,
                                          channels |-> 1, bitDepth |-> 16]
                            IN Sent(wire, c, StreamAudio(audio_config,
                                   create_wav_from_frames(call_output_buffers[call_id],
                                       audio_config.sampleRate, audio_config.channels,
                                       audio_config.bitDepth \div 8)))
                       ELSE wire
            /\ call_output_buffers' = Del(call_output_buffers, call_id)
            /\ call_audio_configs' = Del(call_audio_configs, call_id)
            /\ client_to_call' = Del(client_to_call, c)
       ELSE /\ call_audio_buffers' = buffers
            /\ UNCHANGED <<call_to_client, wire, call_output_buffers,
                           call_audio_configs, client_to_call>>
    /\ pc' = Exit(pc, c)

\* await websocket.send_text(welcome_message) returns or raises (outside the
\* try whose finally cleans up); after it the handler sleeps 1 s, which is a
\* handler in its loop that has not received yet, and enters the loop
CallWelcomeSent(c) ==
    /\ pc[c] = "c_welcome"
    /\ IF open[c]
       THEN /\ wire' = Sent(wire, c, [type |-> "streamAudio",
                                      data |-> [audioDataType |-> "wav", sampleRate |-> 24000,
                                                channels |-> 1, bitDepth |-> 16,
                                                audioData |-> b64encode(<<>>)]])
            /\ pc' = [pc EXCEPT ![c] = "c_recv"]
            /\ UNCHANGED closed
       ELSE /\ closed' = [closed EXCEPT ![c] = TRUE]
            /\ pc' = Exit(pc, c)
            /\ UNCHANGED wire
    /\ UNCHANGED <<path, fnVars, nsent, nmsg, local_id, init_data, pending, proxyVars, callVars>>
    /\ Closing(c)

\* one iteration of the freeswitch loop, up to its first await after the receive
CallClientRecv(c, message) ==
    /\ pc[c] = "c_recv"
    /\ UNCHANGED <<path, fnVars, closed, local_id, init_data, proxyVars, call_ai_backend>>
    /\ LET call_id == local_id[c] IN
       IF \/ ~open[c]
          \/ /\ message.kind = "bytes"
             /\ \/ call_id \notin DOMAIN call_audio_buffers
                \/ /\ ByteLen(call_audio_buffers[call_id]) + message.len >= call_chunk_size
                   /\ call_ai_backend # None
                   /\ ~UUIDParses(call_id)
       THEN \* the receive fails, call_audio_buffers[call_id] raises KeyError, or
            \* uuid.UUID(call_id) raises ValueError after the extend: except
            \* Exception, then finally
            /\ CallClientFinally(c,
                   IF open[c] /\ call_id \in DOMAIN call_audio_buffers
                   THEN Put(call_audio_buffers, call_id, call_audio_buffers[call_id]
                                \o ClientBytes(c, nsent[c], message.len))
                   ELSE call_audio_buffers)
            /\ nsent' = IF open[c] THEN [nsent EXCEPT ![c] = @ + 1] ELSE nsent
            /\ UNCHANGED <<nmsg, pending>>
       ELSE
         /\ UNCHANGED <<wire, call_freeswitch_clients, call_to_client, client_to_call,
                        call_audio_configs, call_output_buffers>>
         /\ IF message.kind = "bytes"
            THEN LET buf == call_audio_buffers[call_id]
                              \o ClientBytes(c, nsent[c], message.len) IN
                 /\ call_audio_buffers' = Put(call_audio_buffers, call_id, buf)
                 /\ nmsg' = nmsg + 1
                 /\ nsent' = [nsent EXCEPT ![c] = @ + 1]
                 /\ IF ByteLen(buf) >= call_chunk_size /\ call_ai_backend # None
                    THEN /\ pending' = [pending EXCEPT ![c] =
                               [type |-> "send", to |-> call_ai_backend,
                                frame |-> [type |-> "bytes", data |-> WithId(call_id, buf)]]]
                         /\ pc' = [pc EXCEPT ![c] = "c_send"]
                    ELSE UNCHANGED <<pc, pending>>
            ELSE \* text: parsed and logged
                 UNCHANGED <<pc, nmsg, nsent, pending, call_audio_buffers>>
    /\ Closing(c)

\* await call_ai_backend.send_bytes(data_with_call_id) returns, and then
\* call_audio_buffers[call_id] = bytearray(); or it raises, and the finally runs
CallClientSent(c) ==
    /\ pc[c] = "c_send"
    /\ pending' = [pending EXCEPT ![c] = NoFrame]
    /\ IF open[pending[c].to]
       THEN /\ wire' = Sent(wire, pending[c].to, pending[c].frame)
            /\ call_audio_buffers' = Put(call_audio_buffers, local_id[c], <<>>)
            /\ pc' = [pc EXCEPT ![c] = "c_recv"]
            /\ UNCHANGED <<call_freeswitch_clients, call_to_client, client_to_call,
                           call_audio_configs, call_output_buffers>>
       ELSE CallClientFinally(c, call_audio_buffers)
    /\ UNCHANGED <<path, fnVars, nsent, closed, nmsg, local_id, init_data, proxyVars, call_ai_backend>>

    /\ Closing(c)

\* the finally of the ai_backend branch
CallBackendFinally(c) ==
    /\ call_ai_backend' = None
    /\ pc' = Exit(pc, c)

\* a lookup that takes any registered client for the one addressed
CallRoute_Any(call_id) ==
    IF call_freeswitch_clients # {} THEN CHOOSE c \in call_freeswitch_clients : TRUE ELSE None

\* socket of the client a call id routes to, or None
CallRoute(call_id) ==
    IF call_id \in DOMAIN call_to_client
       /\ call_to_client[call_id] \in call_freeswitch_clients
    THEN call_to_client[call_id] ELSE None

\* one iteration of the ai_backend loop of /call, up to its first await
CallBackendRecv(c, message) ==
    /\ pc[c] = "b_recv"
    /\ path[c] = "call"
    /\ UNCHANGED <<path, fnVars, nsent, closed, local_id, init_data, proxyVars, call_freeswitch_clients,
                   call_to_client, client_to_call, call_audio_buffers, call_audio_configs>>
    /\ IF ~open[c]
       THEN /\ CallBackendFinally(c)
            /\ UNCHANGED <<wire, nmsg, pending, call_output_buffers>>
       ELSE
         /\ CASE message.kind = "heartbeat" ->
                   /\ pending' = [pending EXCEPT ![c] = [type |-> "send", to |-> call_ai_backend,
                                                         frame |-> HeartbeatAck]]
                   /\ pc' = [pc EXCEPT ![c] = "b_ack"]
                   /\ nmsg' = nmsg + 1
                   /\ UNCHANGED <<wire, call_ai_backend, call_output_buffers>>
              [] message.kind = "text" ->
                   IF ~UUIDParses(message.id)
                   THEN \* ValueError from uuid.UUID: the reader ends
                        /\ CallBackendFinally(c)
                        /\ UNCHANGED <<wire, nmsg, pending, call_output_buffers>>
                   ELSE LET call_id == UUIDStr(UUIDBytes(message.id))
                            to == CallRoute(call_id) IN
                        IF to = None
                        THEN UNCHANGED <<pc, wire, nmsg, pending, call_ai_backend,
                                         call_output_buffers>>
                        ELSE IF open[to]
                        THEN /\ wire' = Sent(wire, to, [type |-> "text", call_id |-> call_id,
                                                        k |-> nmsg])
                             /\ nmsg' = nmsg + 1
                             /\ UNCHANGED <<pc, pending, call_ai_backend, call_output_buffers>>
                        ELSE /\ CallBackendFinally(c)
                             /\ UNCHANGED <<wire, nmsg, pending, call_output_buffers>>
              [] message.kind = "bytes" /\ HasPayload(message.data) ->
                   LET binary_data == message.data
                       call_id == UUIDStr(Head(binary_data).val)
                       audio_data == Tail(binary_data)
                       to == CallRoute(call_id) IN
                   IF to = None
                   THEN UNCHANGED <<pc, wire, nmsg, pending, call_ai_backend,
                                    call_output_buffers>>
                   ELSE LET existing == IF call_id \in DOMAIN call_output_buffers
                                        THEN call_output_buffers[call_id] ELSE <<>>
                            merged == merge_wav_audio_data(existing, audio_data)
                            audio_config == [audioDataType |-> "wav", sampleRate |-> 24000,
                                             channels |-> 1, bitDepth |-> 16] IN
                        /\ call_output_buffers' = Put(call_output_buffers, call_id, merged)
                        /\ nmsg' = nmsg + 1
                        /\ UNCHANGED <<wire, call_ai_backend>>
                        /\ IF ByteLen(merged) >= call_output_threshold
                           THEN /\ pending' = [pending EXCEPT ![c] =
                                      [type |-> "send", to |-> to, call_id |-> call_id,
                                       frame |-> StreamAudio(audio_config,
                                           create_wav_from_frames(merged,
                                               audio_config.sampleRate, audio_config.channels,
                                               audio_config.bitDepth \div 8))]]
                                /\ pc' = [pc EXCEPT ![c] = "b_fwd"]
                           ELSE UNCHANGED <<pc, pending>>
              [] OTHER ->
                   UNCHANGED <<pc, wire, nmsg, pending, call_ai_backend, call_output_buffers>>
    /\ Closing(c)

\* the heartbeat_ack send of /call returns or raises
CallBackendAck(c) ==
    /\ pc[c] = "b_ack"
    /\ path[c] = "call"
    /\ pending' = [pending EXCEPT ![c] = NoFrame]
    /\ IF pending[c].to # None /\ open[pending[c].to]
       THEN /\ wire' = Sent(wire, pending[c].to, pending[c].frame)
            /\ pc' = [pc EXCEPT ![c] = "b_recv"]
            /\ UNCHANGED call_ai_backend
       ELSE /\ CallBackendFinally(c)
            /\ UNCHANGED wire
    /\ UNCHANGED <<path, fnVars, nsent, closed, nmsg, local_id, init_data, proxyVars, call_freeswitch_clients,
                   call_to_client, client_to_call, call_audio_buffers, call_audio_configs,
                   call_output_buffers>>
    /\ Closing(c)

\* await freeswitch_ws.send_text(streamAudio) returns, and then
\* call_output_buffers[call_id] = bytearray(); or it raises, and the reader ends
CallBackendForwarded(c) ==
    /\ pc[c] = "b_fwd"
    /\ pending' = [pending EXCEPT ![c] = NoFrame]
    /\ IF open[pending[c].to]
       THEN /\ wire' = Sent(wire, pending[c].to, pending[c].frame)
            /\ call_output_buffers' = Put(call_output_buffers, pending[c].call_id, <<>>)
            /\ pc' = [pc EXCEPT ![c] = "b_recv"]
            /\ UNCHANGED call_ai_backend
       ELSE /\ CallBackendFinally(c)
            /\ UNCHANGED <<wire, call_output_buffers>>
    /\ UNCHANGED <<path, fnVars, nsent, closed, nmsg, local_id, init_data, proxyVars, call_freeswitch_clients,
                   call_to_client, client_to_call, call_audio_buffers, call_audio_configs>>
    /\ Closing(c)

\* f restricted to the keys in S
Restrict(f, S) == [x \in DOMAIN f \cap S |-> f[x]]

\* POST /call/cleanup; `dead` are the clients whose ws.ping() raised
cleanup_call_resources(dead) ==
    LET \* orphaned inbound buffers, output buffers and configs
        buffers1 == Restrict(call_audio_buffers, DOMAIN call_to_client)
        outputs1 == Restrict(call_output_buffers, DOMAIN call_to_client)
        configs1 == Restrict(call_audio_configs, DOMAIN call_to_client)
        \* call_to_client entries without their reverse entry
        c2c1 == Restrict(call_to_client,
                    {k \in DOMAIN call_to_client :
                        /\ call_to_client[k] \in DOMAIN client_to_call
                        /\ client_to_call[call_to_client[k]] = k})
        \* client_to_call entries without their reverse entry
        cl2c1 == Restrict(client_to_call,
                    {k \in DOMAIN client_to_call :
                        /\ client_to_call[k] \in DOMAIN c2c1
                        /\ c2c1[client_to_call[k]] = k})
        \* the calls of the clients whose ping raised
        gone == {cl2c1[k] : k \in dead \cap DOMAIN cl2c1}
    IN
    /\ call_freeswitch_clients' = call_freeswitch_clients \ dead
    /\ call_to_client' = Restrict(c2c1, DOMAIN c2c1 \ gone)
    /\ call_audio_buffers' = Restrict(buffers1, DOMAIN buffers1 \ gone)
    /\ call_output_buffers' = Restrict(outputs1, DOMAIN outputs1 \ gone)
    /\ call_audio_configs' = Restrict(configs1, DOMAIN configs1 \ gone)
    /\ client_to_call' = Restrict(cl2c1, DOMAIN cl2c1 \ dead)
    /\ UNCHANGED <<connVars, proxyVars, call_ai_backend, wav_in, wav_out>>

\* a socket with a ping method, which raises only when the peer has closed
PingRaises_WhenClosed(ws) == ~open[ws]

\* await ws.ping() on a registered socket raises: fastapi.WebSocket is
\* starlette.websockets.WebSocket, which defines no ping, so the attribute
\* lookup raises AttributeError before anything is awaited and the bare except
\* takes the socket for a dead one
PingRaises(ws) == TRUE

\* the cleaned_items list cleanup_call_resources returns: one item, with its
\* count, for the orphaned inbound buffers, the orphaned descriptors, the
\* inconsistent mappings and the disconnected clients it found, or the one
\* item that nothing was found
cleaned_items(dead) ==
    LET Item(kind, n) == IF n > 0 THEN <<[kind |-> kind, count |-> n]>> ELSE <<>>
        orphaned_buffers == DOMAIN call_audio_buffers \ DOMAIN call_to_client
        orphaned_configs == DOMAIN call_audio_configs \ DOMAIN call_to_client
        bad_c2c == {k \in DOMAIN call_to_client :
                       \/ call_to_client[k] \notin DOMAIN client_to_call
                       \/ client_to_call[call_to_client[k]] # k}
        c2c1 == Restrict(call_to_client, DOMAIN call_to_client \ bad_c2c)
        bad_cl2c == {k \in DOMAIN client_to_call :
                        \/ client_to_call[k] \notin DOMAIN c2c1
                        \/ c2c1[client_to_call[k]] # k}
        items == Item("audio_buffers", Cardinality(orphaned_buffers))
                 \o Item("audio_configs", Cardinality(orphaned_configs))
                 \o Item("mappings", Cardinality(bad_c2c) + Cardinality(bad_cl2c))
                 \o Item("clients", Cardinality(dead))
    IN IF items = <<>> THEN <<[kind |-> "nothing", count |-> 0]>> ELSE items

\* the first socket of a snapshot of call_freeswitch_clients.items(): sockets
\* are taken in the order of their numbers
FirstOf(todo) == CHOOSE k \in todo : \A d \in todo : k <= d

RECURSIVE PingRun(_)
\* the rounds of `for client_id, ws in list(call_freeswitch_clients.items())`
\* over the sockets todo that run without the event loop taking over: a ping
\* that raises is handled at once, the first ping that does not raise
\* suspends the operation in its await
PingRun(todo) ==
    IF todo = {} THEN [dead |-> {}, task |-> NoTask]
    ELSE LET k == FirstOf(todo) IN
         IF PingRaises(k)
         THEN [PingRun(todo \ {k}) EXCEPT !.dead = @ \cup {k}]
         ELSE [dead |-> {}, task |-> [at |-> "ping", ws |-> k, rest |-> todo \ {k}]]

\* the except branch of the ping loop for the clients in dead: the socket
\* entry and, through client_to_call, everything of the client's call
cleanup_ping_pass(dead) ==
    LET gone == {client_to_call[k] : k \in dead \cap DOMAIN client_to_call} IN
    /\ call_freeswitch_clients' = call_freeswitch_clients \ dead
    /\ call_to_client' = Restrict(call_to_client, DOMAIN call_to_client \ gone)
    /\ call_audio_buffers' = Restrict(call_audio_buffers, DOMAIN call_audio_buffers \ gone)
    /\ call_output_buffers' = Restrict(call_output_buffers, DOMAIN call_output_buffers \ gone)
    /\ call_audio_configs' = Restrict(call_audio_configs, DOMAIN call_audio_configs \ gone)
    /\ client_to_call' = Restrict(client_to_call, DOMAIN client_to_call \ dead)
    /\ UNCHANGED <<connVars, proxyVars, call_ai_backend, wav_in, wav_out>>

\* POST /call/cleanup, from the call, or from a ping it was suspended in, to
\* its next suspension or its return.  A call runs the three sweeps, the
\* mapping repair and the ping loop; a ping that was awaited raises when the
\* peer has closed, and `del call_freeswitch_clients[client_id]` in its except
\* branch raises KeyError for a client that is no longer registered, which
\* ends the operation with an error.  Its response goes to the HTTP caller.
Cleanup ==
    /\ IF cleanup_task.at # "ping"
       THEN LET run == PingRun(call_freeswitch_clients) IN
            /\ cleanup_call_resources(run.dead)
            /\ cleanup_task' = run.task
       ELSE LET k == cleanup_task.ws
                run == PingRun(cleanup_task.rest)
                dead == (IF open[k] THEN {} ELSE {k}) \cup run.dead
                unregistered == dead \ call_freeswitch_clients IN
            IF unregistered = {}
            THEN /\ cleanup_ping_pass(dead)
                 /\ cleanup_task' = run.task
            ELSE /\ cleanup_ping_pass({d \in dead : d < FirstOf(unregistered)})
                 /\ cleanup_task' = [at |-> "failed"]
    /\ UNCHANGED response

Routes == {"proxy", "call"}

\* a handler takes a message from an open socket only while fewer than MaxMsgs
\* have been taken
Budget(c) == open[c] => nmsg < MaxMsgs

Next ==
    \/ \E c \in Conns, p \in Routes : Connect(c, p)
    \/ \E c \in Conns : PeerClose(c)
    \/ \E c \in Conns, m \in ProxyHandshakeMsgs : ProxyHandshake(c, m)
    \/ \E c \in Conns : ProxySessionInfo(c)
    \/ \E c \in Conns : \E m \in BackendMsgs(nmsg) : Budget(c) /\ ProxyBackendRecv(c, m)
    \/ \E c \in Conns : ProxyBackendAck(c)
    \/ \E c \in Conns : \E m \in ClientMsgs : Budget(c) /\ ProxyClientRecv(c, m)
    \/ \E c \in Conns : ProxyClientSent(c)
    \/ \E c \in Conns : ProxyTouchChunk(c)
    \/ \E c \in Conns, m \in CallHandshakeMsgs, ok \in BOOLEAN : CallHandshake(c, m, ok)
    \/ \E c \in Conns : CallWelcomeSent(c)
    \/ \E c \in Conns : \E m \in ClientMsgs : Budget(c) /\ CallClientRecv(c, m)
    \/ \E c \in Conns : CallClientSent(c)
    \/ \E c \in Conns : \E m \in BackendMsgs(nmsg) : Budget(c) /\ CallBackendRecv(c, m)
    \/ \E c \in Conns : CallBackendAck(c)
    \/ \E c \in Conns : CallBackendForwarded(c)
    \/ Cleanup

Spec == Init /\ [][Next]_vars

\* ------------------------------------------------------------- properties
\* the handlers of route p that are in the ai_backend loop
ServingBackends(p) ==
    {c \in Conns : path[c] = p /\ pc[c] \in {"b_recv", "b_ack", "b_fwd"}}
\* the handlers that are in a client loop
ServingFrontends == {c \in Conns : pc[c] \in {"f_recv", "f_send", "f_touch"}}
ServingCalls == {c \in Conns : pc[c] \in {"c_recv", "c_send"}}

\* the reference `ref` of route p is empty or the one serving backend
OneBackend(p, ref) ==
    /\ Cardinality(ServingBackends(p)) <= 1
    /\ (ref = None) <=> (ServingBackends(p) = {})
    /\ ref # None => ServingBackends(p) = {ref}

\* C1: on each endpoint at most one backend handler is in its serving loop,
\* the endpoint's backend reference is that handler, and the reference is
\* empty exactly when no backend handler is serving.
C1_OneBackendPerEndpoint ==
    /\ OneBackend("proxy", ai_backend)
    /\ OneBackend("call", call_ai_backend)

\* C1 witness: a backend is serving and registered after another socket's
\* ai_backend handshake was turned away with the error and closed.
C1_Witness ==
    \E b, d \in Conns :
        /\ b # d
        /\ ai_backend = b
        /\ pc[b] = "b_recv"
        /\ init_data[d].client_type = "ai_backend"
        /\ pc[d] = "done"
        /\ closed[d]
        /\ wire[d] = <<ErrorFrame>>

\* the backend reference of the route of socket c
BackendOf(c) == IF path[c] = "proxy" THEN ai_backend ELSE call_ai_backend

\* C2: a socket that handshakes as ai_backend while a backend is registered
\* on its endpoint is sent the error frame and closed, and both backend
\* references are what they were, the rejected handler having returned.
C2_DuplicateBackendRejected ==
    [][\A c \in Conns :
          (/\ pc[c] = "init"
           /\ pc'[c] # "init"
           /\ init_data'[c].client_type = "ai_backend"
           /\ BackendOf(c) # None)
          => /\ wire'[c] = Append(wire[c], ErrorFrame)
             /\ closed'[c]
             /\ pc'[c] = "done"
             /\ ai_backend' = ai_backend
             /\ call_ai_backend' = call_ai_backend]_vars

\* the handshake message m is one the endpoint p has to reject: no
\* client_type, a client_type the endpoint does not serve, or on /call a
\* freeswitch handshake asking for a container type outside raw/wav/mp3/ogg
Rejected(p, m) ==
    \/ m.client_type = "absent"
    \/ p = "proxy" /\ m.client_type \notin {"ai_backend", "frontend"}
    \/ p = "call" /\ m.client_type \notin {"ai_backend", "freeswitch"}
    \/ /\ p = "call"
       /\ m.client_type = "freeswitch"
       /\ "audioDataType" \in DOMAIN m.audio_config
       /\ m.audio_config.audioDataType \notin {"raw", "wav", "mp3", "ogg"}

\* C3: a handshake rejected for an absent client_type, an unknown
\* client_type or an unsupported container type puts the error frame on the
\* socket, closes it, ends the handler, and changes no map or buffer of
\* either endpoint.
C3_RejectedHandshake ==
    [][\A c \in Conns :
          (/\ pc[c] = "init"
           /\ pc'[c] # "init"
           /\ Rejected(path[c], init_data'[c]))
          => /\ wire'[c] = Append(wire[c], ErrorFrame)
             /\ closed'[c]
             /\ pc'[c] = "done"
             /\ local_id'[c] = Absent
             /\ UNCHANGED <<proxyVars, callVars>>]_vars

\* C3 witness: a handshake asking for an unsupported container type has been
\* rejected while a client was registered, and the registry holds that client
\* only.
C3_Witness ==
    \E c, d \in Conns :
        /\ path[c] = "call"
        /\ pc[c] = "done"
        /\ init_data[c].client_type = "freeswitch"
        /\ init_data[c].audio_config # EmptyMap
        /\ wire[c] = <<ErrorFrame>>
        /\ closed[c]
        /\ d < c
        /\ pc[d] = "c_recv"
        /\ call_freeswitch_clients = {d}
        /\ DOMAIN client_to_call = {d}
        /\ DOMAIN call_audio_buffers = {local_id[d]}

\* both directions of a two-way mapping agree
TwoWay(fwd, bwd) ==
    /\ \A s \in DOMAIN fwd : fwd[s] \in DOMAIN bwd /\ bwd[fwd[s]] = s
    /\ \A c \in DOMAIN bwd : bwd[c] \in DOMAIN fwd /\ fwd[bwd[c]] = c

\* C4: in every state session_to_client[s] = c exactly when
\* client_to_session[c] = s, and call_to_client[k] = c exactly when
\* client_to_call[c] = k.
C4_TwoWayMapping ==
    /\ TwoWay(session_to_client, client_to_session)
    /\ TwoWay(call_to_client, client_to_call)

\* C5: no two live client sockets of an endpoint own the same session id or
\* call id.
C5_UniqueIds ==
    /\ \A c, d \in frontend_clients \cap DOMAIN client_to_session :
          c # d => client_to_session[c] # client_to_session[d]
    /\ \A c, d \in call_freeswitch_clients \cap DOMAIN client_to_call :
          c # d => client_to_call[c] # client_to_call[d]

\* the call ids the registry of /call holds
StoredCallIds ==
    DOMAIN call_to_client \cup {client_to_call[c] : c \in DOMAIN client_to_call}
    \cup DOMAIN call_audio_buffers \cup DOMAIN call_audio_configs
    \cup DOMAIN call_output_buffers

\* C6: every call id the registry holds is one uuid.UUID accepts, so that it
\* converts to 16 bytes when an upstream frame is built.
C6_StoredIdsConvert ==
    \A k \in StoredCallIds : UUIDParses(k)

\* C7: the id of every client in its serving loop has an inbound buffer, and
\* on /call an audio configuration as well.
C7_LiveClientHasBuffer ==
    /\ \A c \in ServingFrontends : local_id[c] \in DOMAIN session_audio_buffers
    /\ \A c \in ServingCalls :
          /\ local_id[c] \in DOMAIN call_audio_buffers
          /\ local_id[c] \in DOMAIN call_audio_configs

\* C8: once the handler of a client that was entered in the registry has
\* ended, no map of its endpoint holds its client id or its session id.
C8_CleanupOnEveryExit ==
    \A c \in Conns :
        (pc[c] = "done" /\ local_id[c] # Absent)
        => /\ c \notin frontend_clients \cup call_freeswitch_clients
           /\ c \notin DOMAIN client_to_session \cup DOMAIN client_to_call
           /\ local_id[c] \notin DOMAIN session_to_client \cup DOMAIN call_to_client
           /\ local_id[c] \notin DOMAIN session_audio_buffers
           /\ local_id[c] \notin DOMAIN call_audio_buffers
           /\ local_id[c] \notin DOMAIN call_audio_configs
           /\ local_id[c] \notin DOMAIN call_output_buffers

\* the session ids registered on the route of socket c
RegisteredIds(c) ==
    IF path[c] = "proxy" THEN DOMAIN session_to_client ELSE DOMAIN call_to_client

\* C9: every binary frame a client handler puts on the backend's socket is
\* 16 bytes that decode to the id of that handler's session, which is
\* registered in that step's first state, followed by a non-empty payload.
C9_UpstreamFrame ==
    [][\A c \in Conns :
          (/\ pc[c] \in {"f_send", "c_send"}
           /\ pc'[c] # pc[c]
           /\ wire'[pending[c].to] = Append(wire[pending[c].to], pending[c].frame))
          => LET data == pending[c].frame.data IN
             /\ Head(data).kind = "id"
             /\ Head(data).len = IdLen
             /\ UUIDStr(Head(data).val) = local_id[c]
             /\ local_id[c] \in RegisteredIds(c)
             /\ ByteLen(Tail(data)) > 0]_vars

\* socket c receives a binary frame of n bytes in this step
ReceivesBytes(c, n) ==
    /\ open[c]
    /\ \/ ProxyClientRecv(c, [kind |-> "bytes", len |-> n])
       \/ CallClientRecv(c, [kind |-> "bytes", len |-> n])

\* the inbound buffers, the threshold and the backend of the route of socket c
InboundBuffers(c) ==
    IF path[c] = "proxy" THEN session_audio_buffers ELSE call_audio_buffers
Threshold(c) == IF path[c] = "proxy" THEN target_chunk_size ELSE call_chunk_size

\* C10: a binary frame that brings the inbound buffer to the threshold while
\* a backend is registered starts one send to the backend of the id and the
\* whole buffer, and the send, on a backend socket that is open, puts that
\* frame on it and leaves the buffer empty; a frame that leaves the buffer
\* below the threshold puts nothing on any socket and leaves the buffer the
\* previous one with the frame appended.
C10_ThresholdEmission ==
    [][\A c \in Conns :
          /\ \A n \in FrameSizes :
                (ReceivesBytes(c, n) /\ local_id[c] \in DOMAIN InboundBuffers(c))
                => LET buf == InboundBuffers(c)[local_id[c]] \o ClientBytes(c, nsent[c], n) IN
                   IF ByteLen(buf) >= Threshold(c) /\ BackendOf(c) # None
                   THEN /\ pc'[c] \in {"f_send", "c_send"}
                        /\ pending'[c].to = BackendOf(c)
                        /\ Tail(pending'[c].frame.data) = buf
                        /\ wire' = wire
                   ELSE /\ pc'[c] = pc[c]
                        /\ wire' = wire
                        /\ local_id[c] \in DOMAIN InboundBuffers(c)'
                        /\ InboundBuffers(c)'[local_id[c]] = buf
          /\ (/\ pc[c] \in {"f_send", "c_send"}
              /\ pc'[c] # pc[c]
              /\ open[pending[c].to])
             => /\ wire' = Sent(wire, pending[c].to, pending[c].frame)
                /\ local_id[c] \in DOMAIN InboundBuffers(c)'
                /\ InboundBuffers(c)'[local_id[c]] = <<>>]_vars

\* C11: while no backend is registered a client binary frame puts nothing on
\* any socket and is appended to the inbound buffer, whatever the buffer's
\* size; with a backend registered, the frame that finds bytes in the buffer
\* and brings it to the threshold starts one send of the id and the whole
\* buffer, the earlier bytes included.
C11_BackendAbsentBuffers ==
    [][\A c \in Conns : \A n \in FrameSizes :
          (ReceivesBytes(c, n) /\ local_id[c] \in DOMAIN InboundBuffers(c))
          => LET old == InboundBuffers(c)[local_id[c]]
                 buf == old \o ClientBytes(c, nsent[c], n) IN
             /\ BackendOf(c) = None
                => /\ wire' = wire
                   /\ pc'[c] = pc[c]
                   /\ local_id[c] \in DOMAIN InboundBuffers(c)'
                   /\ InboundBuffers(c)'[local_id[c]] = buf
             /\ (BackendOf(c) # None /\ old # <<>> /\ ByteLen(buf) >= Threshold(c))
                => /\ pc'[c] \in {"f_send", "c_send"}
                   /\ pending'[c].type = "send"
                   /\ pending'[c].to = BackendOf(c)
                   /\ pending'[c].frame.data = IdBytes(UUIDBytes(local_id[c])) \o buf]_vars

RECURSIVE Flatten(_)
\* the concatenation of a sequence of byte strings
Flatten(ss) == IF ss = <<>> THEN <<>> ELSE Head(ss) \o Flatten(Tail(ss))

\* the sockets that handshook as ai_backend
BackendSockets == {b \in Conns : init_data[b].client_type = "ai_backend"}

\* the binary frames socket b was sent that start with the 16 bytes of id
FramesFor(b, id) ==
    SelectSeq(wire[b], LAMBDA f : /\ f.type = "bytes"
                                  /\ Head(f.data).kind = "id"
                                  /\ Head(f.data).val = UUIDBytes(id))

\* the payloads of those frames, concatenated in the order of arrival
UpstreamPayload(b, id) ==
    LET fs == FramesFor(b, id) IN Flatten([i \in 1..Len(fs) |-> Tail(fs[i].data)])

\* C12: for every backend socket and every client in its serving loop, the
\* payloads of the frames the backend got for the client's session,
\* concatenated in arrival order, are the first frames that client sent, in
\* the order it sent them.
C12_UpstreamOrder ==
    \A b \in BackendSockets : \A c \in ServingFrontends \cup ServingCalls :
        (path[c] = path[b])
        => LET bytes == UpstreamPayload(b, local_id[c]) IN
           \A i \in 1..Len(bytes) : bytes[i].src = c /\ bytes[i].k = i - 1

\* ------------------------------------------------------------ scenario S1
\* a frontend client sends S1Frames binary frames of S1FrameLen bytes
S1Frames == 32
S1FrameLen == 1024

\* the handshakes of the scenario: one backend, frontend clients
S1HandshakeMsgs == {Handshake(t, Absent, EmptyMap) : t \in {"ai_backend", "frontend"}}

\* /proxy with sockets that stay open, and clients that send their frames
\* while a backend is registered
NextS1 ==
    \/ \E c \in Conns : Connect(c, "proxy")
    \/ \E c \in Conns, m \in S1HandshakeMsgs : ProxyHandshake(c, m)
    \/ \E c \in Conns : ProxySessionInfo(c)
    \/ \E c \in Conns : /\ ai_backend # None
                        /\ nsent[c] < S1Frames
                        /\ ProxyClientRecv(c, [kind |-> "bytes", len |-> S1FrameLen])
    \/ \E c \in Conns : ProxyClientSent(c)

SpecS1 == Init /\ [][NextS1]_vars

\* C13: in scenario S1, once a client has sent its 32 frames of 1 KiB and its
\* handler is back at its receive, the backend has got exactly one binary
\* frame for the client's session, of 16 + 32768 bytes, that starts with the
\* session's id.
C13_S1OneFrame ==
    \A c \in ServingFrontends :
        (pc[c] = "f_recv" /\ nsent[c] = S1Frames /\ ai_backend # None)
        => LET fs == FramesFor(ai_backend, local_id[c]) IN
           /\ Len(fs) = 1
           /\ ByteLen(fs[1].data) = IdLen + S1Frames * S1FrameLen

\* C14: on /proxy an audio_complete command with bytes in the buffer and a
\* backend registered starts one send to the backend of the 16 bytes of the
\* session's id and the whole buffer, and the send, on a backend socket that
\* is open, puts that frame on it and leaves the buffer empty; with an empty
\* buffer, or with no backend, the command changes nothing.
C14_AudioCompleteFlush ==
    [][\A c \in Conns :
          /\ (open[c] /\ ProxyClientRecv(c, [kind |-> "audio_complete"]))
             => LET buf == session_audio_buffers[local_id[c]] IN
                IF buf # <<>> /\ ai_backend # None
                THEN /\ pc'[c] = "f_send"
                     /\ pending'[c].type = "send"
                     /\ pending'[c].to = ai_backend
                     /\ pending'[c].frame.type = "bytes"
                     /\ pending'[c].frame.data = IdBytes(UUIDBytes(local_id[c])) \o buf
                     /\ ByteLen(pending'[c].frame.data) = IdLen + ByteLen(buf)
                     /\ wire' = wire
                     /\ session_audio_buffers' = session_audio_buffers
                ELSE /\ wire' = wire
                     /\ pc' = pc
                     /\ pending' = pending
                     /\ session_audio_buffers' = session_audio_buffers
          /\ (pc[c] = "f_send" /\ pc'[c] # "f_send" /\ open[pending[c].to])
             => /\ wire' = [wire EXCEPT ![pending[c].to] = Append(@, pending[c].frame)]
                /\ session_audio_buffers'[local_id[c]] = <<>>]_vars

\* C14 witness: the backend has got one frame of a session whose payload is a
\* single client frame, shorter than the threshold, and the session's buffer
\* is empty again.
C14_Witness ==
    \E c \in ServingFrontends :
        /\ pc[c] = "f_recv"
        /\ ai_backend # None
        /\ Len(FramesFor(ai_backend, local_id[c])) = 1
        /\ LET f == FramesFor(ai_backend, local_id[c])[1] IN
           /\ Len(f.data) = 2
           /\ ByteLen(Tail(f.data)) < target_chunk_size
           /\ f.data[2].src = c
        /\ session_audio_buffers[local_id[c]] = <<>>

\* C15: on /call, a client in its loop on an open socket, with bytes in the
\* call's inbound buffer, a backend registered and a call id that converts,
\* answers an audio_complete command by starting the send to the backend of
\* the 16 bytes of the call id followed by the buffer.
C15_CallAudioCompleteFlush ==
    \A c \in ServingCalls :
        (/\ pc[c] = "c_recv"
         /\ open[c]
         /\ call_ai_backend # None
         /\ UUIDParses(local_id[c])
         /\ local_id[c] \in DOMAIN call_audio_buffers
         /\ call_audio_buffers[local_id[c]] # <<>>)
        => ENABLED (/\ CallClientRecv(c, [kind |-> "audio_complete"])
                    /\ pc'[c] = "c_send"
                    /\ pending'[c].to = call_ai_backend
                    /\ pending'[c].frame.data
                         = IdBytes(UUIDBytes(local_id[c])) \o call_audio_buffers[local_id[c]])

\* the server writes a binary frame to the frontend client c in this step
GetsBinary(c) ==
    /\ path[c] = "proxy"
    /\ init_data[c].client_type = "frontend"
    /\ Len(wire'[c]) = Len(wire[c]) + 1
    /\ wire'[c][Len(wire'[c])].type = "bytes"

\* the step is the backend reader taking a frame id(16) + payload whose id is
\* the session of client c, and the frame written to c is that payload
IsBackendPayload(c) ==
    \E b \in Conns : \E m \in BackendMsgs(nmsg) :
        /\ m.kind = "bytes"
        /\ ByteLen(m.data) > IdLen
        /\ Head(m.data).kind = "id"
        /\ ProxyBackendRecv(b, m)
        /\ c \in DOMAIN client_to_session
        /\ UUIDStr(Head(m.data).val) = client_to_session[c]
        /\ wire'[c][Len(wire'[c])].data = Tail(m.data)

\* the step is the handler of c sending a chunk of at most 5120 bytes of the
\* touch audio its own touch command asked for
IsTouchChunk(c) ==
    /\ pc[c] = "f_touch"
    /\ ProxyTouchChunk(c)
    /\ wire'[c][Len(wire'[c])].data[1].kind = "touch"
    /\ ByteLen(wire'[c][Len(wire'[c])].data) <= touch_chunk_size

\* C16 as stated: every binary frame written to a frontend client is the
\* payload of one backend frame addressed to the client's session.
C16_DownstreamFromBackend ==
    [][\A c \in Conns : GetsBinary(c) => IsBackendPayload(c)]_vars

\* C16 amended: every binary frame written to a frontend client is the payload
\* of one backend frame addressed to the client's session, or a chunk of the
\* touch audio sent in answer to the client's own touch command.
C16_DownstreamFromBackendOrTouch ==
    [][\A c \in Conns : GetsBinary(c) => (IsBackendPayload(c) \/ IsTouchChunk(c))]_vars

\* C16 witness: a frontend client has been written a backend payload and a
\* chunk of touch audio.
C16_Witness ==
    \E c \in Conns :
        /\ init_data[c].client_type = "frontend"
        /\ \E i, j \in 1..Len(wire[c]) :
              /\ wire[c][i].type = "bytes"
              /\ wire[c][i].data[1].kind = "touch"
              /\ wire[c][j].type = "bytes"
              /\ wire[c][j].data[1].kind = "hdr"

\* the backend reader of either route takes message m
BackendRecv(b, m) == ProxyBackendRecv(b, m) \/ CallBackendRecv(b, m)

\* the binary frames the backend can send now
BackendFrames == {m \in BackendMsgs(nmsg) : m.kind = "bytes"}

\* the frame written last to socket c in the next state
LastWritten(c) == wire'[c][Len(wire'[c])]

\* C17: while the backend reader is serving, a binary frame of at most 16 bytes
\* is taken and changes nothing: no frame is written to any socket, no registry
\* map and no buffer changes, the reader stays in its loop and the backend
\* stays registered.  A longer frame is split after its 16th byte: on /proxy the
\* bytes after the id are written to the client the id routes to, on /call they
\* are merged into the output buffer of the call the id routes to.
C17_ShortFrameDiscarded ==
    \A b \in Conns : \A m \in BackendFrames :
        (pc[b] = "b_recv" /\ open[b])
        => IF ByteLen(m.data) <= IdLen
           THEN /\ ENABLED (BackendRecv(b, m) /\ UNCHANGED vars)
                /\ ~ ENABLED (BackendRecv(b, m) /\ vars' # vars)
           ELSE LET id == UUIDStr(Head(m.data).val)
                    payload == Tail(m.data) IN
                /\ ENABLED BackendRecv(b, m)
                /\ (/\ path[b] = "proxy"
                    /\ id \in DOMAIN session_to_client
                    /\ session_to_client[id] \in frontend_clients
                    /\ open[session_to_client[id]])
                   => ~ ENABLED (/\ BackendRecv(b, m)
                                 /\ LastWritten(session_to_client[id])
                                       # [type |-> "bytes", data |-> payload])
                /\ (/\ path[b] = "call"
                    /\ id \in DOMAIN call_to_client
                    /\ call_to_client[id] \in call_freeswitch_clients)
                   => ~ ENABLED (/\ BackendRecv(b, m)
                                 /\ \/ id \notin DOMAIN call_output_buffers'
                                    \/ call_output_buffers'[id] = <<>>
                                    \/ call_output_buffers'[id][Len(call_output_buffers'[id])]
                                          # payload[Len(payload)])

\* C17 witness: the backend reader has forwarded the payload of a long frame to
\* a client, is still serving and registered, and can take a frame that is
\* only the 16 bytes of that client's session id.
C17_Witness ==
    \E b \in Conns : \E c \in Conns \ {b} :
        /\ pc[b] = "b_recv" /\ open[b] /\ ai_backend = b
        /\ c \in DOMAIN client_to_session
        /\ \E i \in 1..Len(wire[c]) :
              wire[c][i].type = "bytes" /\ wire[c][i].data[1].kind = "hdr"
        /\ \E n \in BackendIds :
              /\ UUIDStr(n) = client_to_session[c]
              /\ ENABLED (BackendRecv(b, [kind |-> "bytes", data |-> IdBytes(n)])
                          /\ UNCHANGED vars)

\* the audio bytes of a frame written to a client: a binary frame's bytes, the
\* decoded audioData of a streamAudio envelope, nothing for any other frame
AudioOf(f) ==
    IF f.type = "bytes" THEN f.data
    ELSE IF f.type = "streamAudio" THEN f.data.audioData.b64
    ELSE <<>>

\* the backend's sample data that client c has received, in the order received
DownstreamAudio(c) ==
    SelectSeq(Flatten([i \in 1..Len(wire[c]) |-> AudioOf(wire[c][i])]),
              LAMBDA seg : seg.kind = "data" /\ seg.src = None)

\* C18: the sample data of the backend that a /proxy client receives in binary
\* frames, and that a /call client receives in successive streamAudio
\* envelopes, is in the order in which the backend sent it.
C18_DownstreamOrder ==
    \A c \in Conns :
        init_data[c].client_type \in {"frontend", "freeswitch"}
        => LET audio == DownstreamAudio(c) IN
           \A i, j \in 1..Len(audio) : i < j => audio[i].k < audio[j].k

\* C18 witness: a /call client has received, in one streamAudio envelope, the
\* sample data of two backend frames.
C18_Witness ==
    \E c \in Conns :
        /\ init_data[c].client_type = "freeswitch"
        /\ Len(DownstreamAudio(c)) = 2

\* C19: every /call downstream buffer holds sample data only: no byte of a
\* container header is in it, the first chunk stored into an empty buffer
\* included.
C19_OutputBufferRawOnly ==
    \A id \in DOMAIN call_output_buffers :
        \A i \in 1..Len(call_output_buffers[id]) :
            call_output_buffers[id][i].kind = "data"

\* the containers client c has received in streamAudio envelopes, the welcome
\* audio apart
EmittedContainers(c) ==
    LET fs == SelectSeq(wire[c], LAMBDA f : f.type = "streamAudio"
                                            /\ f.data.audioData.b64 # <<>>) IN
    [i \in 1..Len(fs) |-> fs[i].data.audioData.b64]

\* C20: every container emitted to a /call client is the header synthesized at
\* emission followed by the sample data of the merged backend containers and
\* nothing else, and the data length its header declares is the sum of the
\* data lengths of the merged containers.
C20_MergeRoundTrip ==
    \A c \in Conns :
        init_data[c].client_type = "freeswitch"
        => \A i \in 1..Len(EmittedContainers(c)) :
              LET wav == EmittedContainers(c)[i]
                  frames == Tail(wav) IN
              /\ \A j \in 1..Len(frames) :
                    frames[j].kind = "data" /\ frames[j].src = None
              /\ Head(wav).datalen
                    = ByteLen(SelectSeq(frames, LAMBDA seg : seg.kind = "data"))

\* ------------------------------------------------------ container synthesis
\* lengths of the raw frames handed to a synthesis: none, an odd length, a
\* few whole numbers of frames, and the longest whose chunk size 36 + n is
\* still an integer here
WavLens == {0, 1, 320, 640, 12880, 2147483611}
WavRates == {8000, 16000, 24000}
WavChannels == {1, 2}
WavWidths == {1, 2}

\* a byte string of n bytes of raw frames
RawFrames(n) == IF n = 0 THEN <<>> ELSE <<[kind |-> "data", len |-> n, src |-> None, k |-> 0]>>

WavInputs ==
    {[fn |-> "args", frames |-> RawFrames(n), sample_rate |-> r, channels |-> ch,
      sample_width |-> w] : n \in WavLens, r \in WavRates, ch \in WavChannels, w \in WavWidths}

InitWav ==
    /\ InitRoutes
    /\ wav_in \in WavInputs
    /\ wav_out = NoWav
    /\ response = NoResponse
    /\ cleanup_task = NoTask

\* complete_wav_data = create_wav_from_frames(frames, sample_rate, channels, sample_width)
CreateWav ==
    /\ wav_out = NoWav
    /\ wav_out' = [fn |-> "create_wav_from_frames",
                   wav |-> create_wav_from_frames(wav_in.frames, wav_in.sample_rate,
                                                  wav_in.channels, wav_in.sample_width)]
    /\ UNCHANGED <<connVars, proxyVars, callVars, wav_in, response, cleanup_task>>

\* AudioReceiver.save_wav_file on a receiver holding the frames: nothing is
\* written when there is no audio, else the header and then the audio
SaveWav ==
    /\ wav_out = NoWav
    /\ wav_in.frames # <<>>
    /\ wav_out' = [fn |-> "save_wav_file",
                   wav |-> <<create_wav_header(wav_in, ByteLen(wav_in.frames))>>
                              \o wav_in.frames]
    /\ UNCHANGED <<connVars, proxyVars, callVars, wav_in, response, cleanup_task>>

NextWav == CreateWav \/ SaveWav

SpecWav == InitWav /\ [][NextWav]_vars

\* C21: a container synthesized from n bytes of raw frames is a header of 44
\* bytes followed by those n bytes; the header declares the data length n and
\* the chunk size n + 36, its byte rate is sampleRate * channels *
\* bytesPerSample and its block alignment channels * bytesPerSample.
C21_ContainerSynthesis ==
    wav_out # NoWav
    => LET n == ByteLen(wav_in.frames)
           header == Head(wav_out.wav)
           bytesPerSample == IF wav_out.fn = "save_wav_file" THEN 2
                             ELSE wav_in.sample_width IN
       /\ header.kind = "hdr"
       /\ header.len = WavHeaderLen
       /\ Tail(wav_out.wav) = wav_in.frames
       /\ header.datalen = n
       /\ header.riff = n + 36
       /\ header.byte_rate = wav_in.sample_rate * wav_in.channels * bytesPerSample
       /\ header.block_align = wav_in.channels * bytesPerSample

\* C21 witness: a container was synthesized by create_wav_from_frames from an
\* odd number of bytes with two-byte samples, so that the length first
\* declared was not the length written.
C21_Witness ==
    /\ wav_out # NoWav
    /\ wav_out.fn = "create_wav_from_frames"
    /\ ByteLen(wav_in.frames) = 1
    /\ wav_in.sample_width = 2

\* C22: the streamAudio envelope the /call backend reader is sending for a
\* call carries the sampleRate, channels and bitDepth of the descriptor stored
\* for the call at the handshake, and the header of the container in it is
\* synthesized from them.
C22_EnvelopeUsesStoredDescriptor ==
    \A b \in Conns :
        (/\ pc[b] = "b_fwd"
         /\ pending[b].call_id \in DOMAIN call_audio_configs)
        => LET descriptor == call_audio_configs[pending[b].call_id]
               envelope == pending[b].frame.data
               header == Head(envelope.audioData.b64) IN
           /\ envelope.sampleRate = descriptor.sampleRate
           /\ envelope.channels = descriptor.channels
           /\ envelope.bitDepth = descriptor.bitDepth
           /\ header.rate = descriptor.sampleRate
           /\ header.channels = descriptor.channels
           /\ header.width = descriptor.bitDepth \div 8

\* ----------------------------------------------- teardown with output left
\* A backend and one telephony client of call 1; the backend sends containers
\* for the call, the client sends frames, either peer may close.  At most
\* TeardownMsgs messages are taken in all.
TeardownMsgs == 4

TeardownHandshakeMsgs ==
    {Handshake("ai_backend", Absent, EmptyMap), Handshake("freeswitch", Canon(1), EmptyMap)}

NextTeardown ==
    \/ \E c \in Conns : Connect(c, "call")
    \/ \E c \in Conns : PeerClose(c)
    \/ \E c \in Conns, m \in TeardownHandshakeMsgs : CallHandshake(c, m, TRUE)
    \/ \E c \in Conns : CallWelcomeSent(c)
    \/ \E c \in Conns : \E sz \in ContainerSizes :
          /\ open[c] => nmsg < TeardownMsgs
          /\ CallBackendRecv(c, [kind |-> "bytes", data |-> IdBytes(1) \o Container(nmsg, sz)])
    \/ \E c \in Conns : CallBackendForwarded(c)
    \/ \E c \in Conns : \E n \in FrameSizes :
          /\ open[c] => nmsg < TeardownMsgs
          /\ CallClientRecv(c, [kind |-> "bytes", len |-> n])
    \/ \E c \in Conns : CallClientSent(c)

SpecTeardown == Init /\ [][NextTeardown]_vars

\* C23: when the handler of a telephony client whose socket is still open
\* tears down while the downstream buffer of its call is not empty, a final
\* streamAudio envelope with a container of the remaining buffer is written to
\* the client's socket.
C23_FinalFlushAttempted ==
    [][\A c \in Conns :
          (/\ pc[c] \in {"c_recv", "c_send"}
           /\ pc'[c] = "done"
           /\ open[c]
           /\ c \in DOMAIN client_to_call
           /\ client_to_call[c] \in DOMAIN call_output_buffers
           /\ call_output_buffers[client_to_call[c]] # <<>>)
          => /\ Len(wire'[c]) = Len(wire[c]) + 1
             /\ LastWritten(c).type = "streamAudio"
             /\ Tail(LastWritten(c).data.audioData.b64)
                   = call_output_buffers[client_to_call[c]]]_vars

\* the heartbeat_ack send of the backend reader of either route completes
BackendAck(b) == ProxyBackendAck(b) \/ CallBackendAck(b)

\* C24: a heartbeat the backend reader takes from its open socket starts one
\* send of a heartbeat_ack to the backend socket, and the send, on the socket
\* still open, writes that one frame on it; neither step writes to any other
\* socket or changes a registry map, a buffer or the backend registration.
C24_HeartbeatAck ==
    [][\A b \in Conns :
          /\ (open[b] /\ BackendRecv(b, [kind |-> "heartbeat"]))
             => /\ pc'[b] = "b_ack"
                /\ pending'[b] = [type |-> "send", to |-> b,
                                  frame |-> [type |-> "heartbeat_ack"]]
                /\ wire' = wire
                /\ UNCHANGED <<proxyVars, callVars>>
          /\ (open[b] /\ BackendAck(b))
             => /\ pc'[b] = "b_recv"
                /\ wire' = [wire EXCEPT ![b] = Append(@, [type |-> "heartbeat_ack"])]
                /\ UNCHANGED <<proxyVars, callVars>>]_vars

\* C24 witness: the backend socket holds the heartbeat_ack and nothing else,
\* and its reader is back in its loop with the backend registered.
C24_Witness ==
    \E b \in Conns :
        /\ pc[b] = "b_recv"
        /\ BackendOf(b) = b
        /\ wire[b] = <<[type |-> "heartbeat_ack"]>>

\* the id a backend frame is addressed to, as the reader converts it
AddressedId(m) ==
    IF m.kind = "text" THEN UUIDStr(UUIDBytes(m.id)) ELSE UUIDStr(Head(m.data).val)

\* the backend frames that carry an id the reader can convert
AddressedFrames ==
    {m \in BackendMsgs(nmsg) :
        \/ m.kind = "text" /\ UUIDParses(m.id)
        \/ m.kind = "bytes" /\ ByteLen(m.data) > IdLen}

\* the id is in no mapping of the route p, or the client it maps to has no socket
Unroutable(p, id) ==
    IF p = "proxy"
    THEN id \notin DOMAIN session_to_client \/ session_to_client[id] \notin frontend_clients
    ELSE id \notin DOMAIN call_to_client \/ call_to_client[id] \notin call_freeswitch_clients

\* C25: while the backend reader is serving, a text or binary frame addressed
\* to an id that no mapping holds, or whose client has no socket, is taken and
\* changes nothing: no frame is written to any socket, no map or buffer is
\* created or changed, the reader stays in its loop and the backend stays
\* registered.
C25_UnroutableDropped ==
    \A b \in Conns : \A m \in AddressedFrames :
        (pc[b] = "b_recv" /\ open[b] /\ Unroutable(path[b], AddressedId(m)))
        => /\ ENABLED (BackendRecv(b, m) /\ UNCHANGED vars)
           /\ ~ ENABLED (BackendRecv(b, m) /\ vars' # vars)

\* C25 witness: a /call backend reader is serving while a telephony client is
\* registered with its socket, and it can take a container addressed to an
\* id that is not the client's.
C25_Witness ==
    \E b \in Conns : \E c \in call_freeswitch_clients :
        /\ pc[b] = "b_recv" /\ open[b] /\ call_ai_backend = b
        /\ open[c] /\ pc[c] = "c_recv"
        /\ \E m \in AddressedFrames :
              /\ m.kind = "bytes"
              /\ Unroutable("call", AddressedId(m))
              /\ ENABLED (BackendRecv(b, m) /\ UNCHANGED vars)

\* the text frames of the backend that fail to parse: text that is not JSON
\* (or lacks the fields), and a text message whose id is no 128-bit identifier
ParseErrorFrames ==
    {m \in BackendMsgs(nmsg) : m.kind = "junk" \/ (m.kind = "text" /\ ~UUIDParses(m.id))}

\* C26: while the backend reader is serving, a text frame that is not JSON, or
\* a text message whose session_id / call_id does not parse, is taken and only
\* that frame is dropped: the reader stays in its loop and the backend stays
\* registered.
C26_ParseErrorDropsFrame ==
    \A b \in Conns : \A m \in ParseErrorFrames :
        (pc[b] = "b_recv" /\ open[b])
        => /\ ENABLED BackendRecv(b, m)
           /\ ~ ENABLED (/\ BackendRecv(b, m)
                         /\ ~ (/\ pc'[b] = "b_recv"
                               /\ ai_backend' = ai_backend
                               /\ call_ai_backend' = call_ai_backend))

\* the backend reader b is in a send to a client socket that fails in this
\* step: the forward of a text frame, or of a streamAudio envelope, to a
\* client whose peer has closed
ClientSendFails(b) ==
    \/ \E m \in AddressedFrames :
          /\ m.kind = "text"
          /\ ~Unroutable(path[b], AddressedId(m))
          /\ ~open[IF path[b] = "proxy" THEN session_to_client[AddressedId(m)]
                   ELSE call_to_client[AddressedId(m)]]
          /\ BackendRecv(b, m)
    \/ /\ pc[b] = "b_fwd"
       /\ ~open[pending[b].to]
       /\ CallBackendForwarded(b)

\* C27: when the backend reader's send of a forwarded text or audio frame to
\* a client socket fails, the reader stays in its loop, the backend stays
\* registered and no registry map or buffer changes.
C27_ClientSendFailureContained ==
    [][\A b \in Conns :
          (open[b] /\ ClientSendFails(b))
          => /\ pc'[b] = "b_recv"
             /\ ai_backend' = ai_backend
             /\ call_ai_backend' = call_ai_backend]_vars

\* the sockets of route p whose backend reader has ended after serving
FormerBackends(p) ==
    {d \in Conns : /\ path[d] = p
                   /\ init_data[d].client_type = "ai_backend"
                   /\ pc[d] = "done"
                   /\ ~closed[d]}

\* the reader of the backend b, whose socket has closed, ends in this step:
\* the backend reference of its route becomes empty, and no client entry,
\* mapping or buffer and no other handler's position changes
BackendCloseKeepsClients(b) ==
    (/\ b \in ServingBackends(path[b])
     /\ ~open[b]
     /\ pc'[b] = "done")
    => /\ (IF path[b] = "proxy" THEN ai_backend' ELSE call_ai_backend') = None
       /\ UNCHANGED <<frontend_clients, session_to_client, client_to_session,
                      session_audio_buffers, call_freeswitch_clients, call_to_client,
                      client_to_call, call_audio_buffers, call_audio_configs,
                      call_output_buffers>>
       /\ \A c \in Conns \ {b} : pc'[c] = pc[c]

\* after a backend reader has ended, an ai_backend handshake on a route
\* without a backend is accepted and registered
NewBackendAccepted(c) ==
    (/\ pc[c] = "init"
     /\ pc'[c] # "init"
     /\ init_data'[c].client_type = "ai_backend"
     /\ FormerBackends(path[c]) # {}
     /\ BackendOf(c) = None)
    => /\ pc'[c] = "b_recv"
       /\ (IF path[c] = "proxy" THEN ai_backend' ELSE call_ai_backend') = c

\* with a backend registered after an earlier one has ended, the frame that
\* brings a client's buffered bytes to the threshold starts the send of the
\* whole buffer to the new backend
ResumedEmission(c) ==
    \A n \in FrameSizes :
        (/\ ReceivesBytes(c, n)
         /\ FormerBackends(path[c]) # {}
         /\ BackendOf(c) # None
         /\ local_id[c] \in DOMAIN InboundBuffers(c)
         /\ InboundBuffers(c)[local_id[c]] # <<>>
         /\ ByteLen(InboundBuffers(c)[local_id[c]]) + n >= Threshold(c))
        => /\ pc'[c] \in {"f_send", "c_send"}
           /\ pending'[c].type = "send"
           /\ pending'[c].to = BackendOf(c)
           /\ pending'[c].frame.data
                 = IdBytes(UUIDBytes(local_id[c]))
                      \o InboundBuffers(c)[local_id[c]] \o ClientBytes(c, nsent[c], n)

\* C28: a backend socket close ends the backend reader and empties the
\* backend registration and changes no client entry, mapping or buffer;
\* afterwards a new ai_backend handshake is accepted, and the buffered inbound
\* bytes of a session are emitted to the new backend when the session's next
\* frame brings them to the threshold.
C28_BackendCloseKeepsClients ==
    [][\A c \in Conns :
          /\ BackendCloseKeepsClients(c)
          /\ NewBackendAccepted(c)
          /\ ResumedEmission(c)]_vars

\* C29: when the send of an upstream frame from a client handler to the
\* backend socket fails, the backend reference of the endpoint is empty after
\* the step.
C29_FailedWriteUnregisters ==
    [][\A c \in Conns :
          (/\ pc[c] \in {"f_send", "c_send"}
           /\ pc'[c] # pc[c]
           /\ ~open[pending[c].to])
          => (IF path[c] = "proxy" THEN ai_backend' ELSE call_ai_backend') = None]_vars

\* ------------------------------------------------------------ /call/cleanup
\* the call ids and client ids of the registry states cleanup is called in
CleanupIds == {Canon(1), Canon(2)}
CleanupClients == {1, 2}

\* the maps from a subset of S to T
PartialMaps(S, T) == UNION {[D -> T] : D \in SUBSET S}

\* cleanup is called in any state of the /call registries: any two maps, any
\* keys in the three per-call maps, any clients with a socket
InitCleanup ==
    /\ InitSockets
    /\ call_freeswitch_clients \in SUBSET CleanupClients
    /\ call_to_client \in PartialMaps(CleanupIds, CleanupClients)
    /\ client_to_call \in PartialMaps(CleanupClients, CleanupIds)
    /\ call_audio_buffers \in PartialMaps(CleanupIds, {<<>>})
    /\ call_audio_configs \in PartialMaps(CleanupIds, {default_config})
    /\ call_output_buffers \in PartialMaps(CleanupIds, {<<>>})
    /\ wav_in = NoWav
    /\ wav_out = NoWav
    /\ response = NoResponse
    /\ cleanup_task = NoTask

\* POST /call/cleanup is called once and answers
CleanupCall ==
    LET dead == {k \in call_freeswitch_clients : PingRaises(k)} IN
    /\ response = NoResponse
    /\ cleanup_call_resources(dead)
    /\ UNCHANGED cleanup_task
    /\ response' = [status |-> "cleanup_completed", cleaned_items |-> cleaned_items(dead)]

NextCleanup == CleanupCall

SpecCleanup == InitCleanup /\ [][NextCleanup]_vars

\* GET /call/status: the keys of every /call map
get_call_status ==
    [freeswitch_clients |-> call_freeswitch_clients,
     active_calls |-> DOMAIN call_to_client,
     audio_buffers |-> DOMAIN call_audio_buffers,
     output_buffers |-> DOMAIN call_output_buffers,
     audio_configs |-> DOMAIN call_audio_configs]

\* the status shows no orphan: every key of the three per-call maps is an
\* active call, and the two mappings are inverses of each other
ZeroOrphans ==
    /\ get_call_status.audio_buffers \subseteq get_call_status.active_calls
    /\ get_call_status.output_buffers \subseteq get_call_status.active_calls
    /\ get_call_status.audio_configs \subseteq get_call_status.active_calls
    /\ \A k \in DOMAIN call_to_client :
          call_to_client[k] \in DOMAIN client_to_call /\ client_to_call[call_to_client[k]] = k
    /\ \A k \in DOMAIN client_to_call :
          client_to_call[k] \in DOMAIN call_to_client /\ call_to_client[client_to_call[k]] = k

\* the registry state of scenario S6: one client -> call entry whose call ->
\* client entry is missing, and nothing else out of place
S6State ==
    /\ Cardinality(DOMAIN client_to_call) = 1
    /\ call_to_client = EmptyMap
    /\ call_audio_buffers = EmptyMap
    /\ call_audio_configs = EmptyMap
    /\ call_output_buffers = EmptyMap

\* C30: after the cleanup operation has returned the status shows zero
\* orphans, whatever the registry state it was called in; called in the state
\* of S6 it removes the remaining half and reports one repaired mapping.
C30_CleanupLeavesNoOrphans ==
    [][CleanupCall
       => /\ ZeroOrphans'
          /\ S6State => /\ client_to_call' = EmptyMap
                        /\ \E i \in 1..Len(response'.cleaned_items) :
                              response'.cleaned_items[i] = [kind |-> "mappings", count |-> 1]]_vars

\* C31: a touch command taken while the touch-sound directory is absent, or
\* holds no .wav file, writes the typed error frame to the client's socket
\* and no binary frame.
C31_TouchAbsentErrorFrame ==
    \A c \in Conns : \A d \in TouchDirs :
        (pc[c] = "f_recv" /\ open[c] /\ (~d.exists \/ d.wavs = {}))
        => \A n \in get_touch_audio_data(d) :
              ENABLED (/\ ProxyClientRecv(c, [kind |-> "touch", len |-> n])
                       /\ wire'[c] = Append(wire[c], ErrorFrame))

\* the handlers suspended in a send on socket b
SendingTo(b) == {c \in Conns : pending[c].type = "send" /\ pending[c].to = b}

\* C32: at any time at most one handler is inside a send on a backend socket.
C32_BackendWritesSerialized ==
    \A b \in BackendSockets : Cardinality(SendingTo(b)) <= 1

PayloadFrames == {m \in BackendMsgs(nmsg) : m.kind = "bytes" /\ ByteLen(m.data) > IdLen}

\* the downstream buffer of call k, empty when there is none
OutputBuffer(k) ==
    IF k \in DOMAIN call_output_buffers THEN call_output_buffers[k] ELSE <<>>

\* the /call reader is suspended in the send of an envelope for call k
Forwarding(k) == \E b \in Conns : pc[b] = "b_fwd" /\ pending[b].call_id = k

\* C34: a binary frame for a registered call whose merged downstream buffer
\* reaches the threshold starts the send of one streamAudio envelope holding
\* the merged buffer to the call's client, and when the reader leaves the send
\* the envelope is on the client's socket and the buffer is empty; a frame
\* that leaves the merged buffer below the threshold writes nothing and
\* stores the merged buffer.  After every step, each downstream buffer the
\* reader is not sending is shorter than the threshold.
C34_DownstreamThresholdEmission ==
    [][/\ \A b \in Conns : \A m \in PayloadFrames :
             (/\ open[b]
              /\ ~Unroutable("call", AddressedId(m))
              /\ CallBackendRecv(b, m))
             => LET k == AddressedId(m)
                    merged == merge_wav_audio_data(OutputBuffer(k), Tail(m.data)) IN
                IF ByteLen(merged) >= call_output_threshold
                THEN /\ pc'[b] = "b_fwd"
                     /\ pending'[b].to = call_to_client[k]
                     /\ pending'[b].frame.type = "streamAudio"
                     /\ Tail(pending'[b].frame.data.audioData.b64) = merged
                     /\ wire' = wire
                ELSE /\ pc'[b] = "b_recv"
                     /\ wire' = wire
                     /\ call_output_buffers'[k] = merged
       /\ \A b \in Conns :
             (pc[b] = "b_fwd" /\ pc'[b] # "b_fwd")
             => /\ wire' = Sent(wire, pending[b].to, pending[b].frame)
                /\ call_output_buffers'[pending[b].call_id] = <<>>
       /\ \A k \in DOMAIN call_output_buffers' :
             ~Forwarding(k)' => ByteLen(call_output_buffers'[k]) < call_output_threshold]_vars

\* the socket registered for the id on route p, None when it does not route
RegisteredSocket(p, id) ==
    IF Unroutable(p, id) THEN None
    ELSE IF p = "proxy" THEN session_to_client[id] ELSE call_to_client[id]

\* the step leaves alone every socket but `to` and every downstream buffer
\* but the one of id
OnlyTouches(to, id) ==
    /\ \A c \in Conns \ {to} : wire'[c] = wire[c]
    /\ \A k \in (DOMAIN call_output_buffers \cup DOMAIN call_output_buffers') \ {id} :
          OutputBuffer(k)' = OutputBuffer(k)
    /\ UNCHANGED <<frontend_clients, session_to_client, client_to_session,
                   session_audio_buffers, call_freeswitch_clients, call_to_client,
                   client_to_call, call_audio_buffers, call_audio_configs>>

\* the reader of route p is serving after the step, its backend registered
StillServing(b) ==
    /\ pc'[b] \in {"b_recv", "b_fwd"}
    /\ ai_backend' = ai_backend
    /\ call_ai_backend' = call_ai_backend

\* C35: a step in which the backend reader takes a text or binary frame
\* addressed to an id, or completes the send of that id's envelope, writes to
\* at most one socket, the one registered for the id; a forwarded text is
\* {type: "text", content}, with the call_id on /call.  It changes no other
\* socket's frames, no mapping and no other id's buffer, and leaves the
\* reader serving: what the client of another session receives does not
\* depend on the frames addressed to this id.
C35_RoutingIsolation ==
    [][\A b \in Conns :
          /\ \A m \in AddressedFrames :
                (open[b] /\ BackendRecv(b, m))
                => LET id == AddressedId(m)
                       to == RegisteredSocket(path[b], id) IN
                   /\ OnlyTouches(to, id)
                   /\ to # None
                      => wire'[to] \in
                           {wire[to],
                            Append(wire[to],
                              IF m.kind = "bytes"
                              THEN [type |-> "bytes", data |-> Tail(m.data)]
                              ELSE IF path[b] = "proxy"
                              THEN [type |-> "text", k |-> nmsg]
                              ELSE [type |-> "text", call_id |-> id, k |-> nmsg])}
                   /\ StillServing(b)
          /\ (pc[b] = "b_fwd" /\ pc'[b] # "b_fwd")
             => /\ OnlyTouches(pending[b].to, pending[b].call_id)
                /\ StillServing(b)]_vars

\* the kinds of the items of a returned cleaned_items list
ItemKinds(items) == {items[i].kind : i \in 1..Len(items)}

\* C36: the list a cleanup call returns has an item for the orphaned inbound
\* buffers, for the orphaned downstream buffers, for the orphaned
\* descriptors, for the inconsistent mappings and for the disconnected
\* clients whenever the call removed entries of that kind, and it is the
\* item that nothing needed cleaning only when the call changed no map.
C36_CleanupReportsRepairs ==
    [][CleanupCall
       => LET kinds == ItemKinds(response'.cleaned_items)
              active == DOMAIN call_to_client IN
          /\ DOMAIN call_audio_buffers \ active # {} => "audio_buffers" \in kinds
          /\ DOMAIN call_output_buffers \ active # {} => "output_buffers" \in kinds
          /\ DOMAIN call_audio_configs \ active # {} => "audio_configs" \in kinds
          /\ ~TwoWay(call_to_client, client_to_call) => "mappings" \in kinds
          /\ call_freeswitch_clients' # call_freeswitch_clients => "clients" \in kinds
          /\ "nothing" \in kinds
             => UNCHANGED <<call_freeswitch_clients, call_to_client, client_to_call,
                            call_audio_buffers, call_audio_configs,
                            call_output_buffers>>]_vars

\* client c is registered with both directions of its mapping
ConsistentClient(c) ==
    /\ c \in call_freeswitch_clients
    /\ c \in DOMAIN client_to_call
    /\ client_to_call[c] \in DOMAIN call_to_client
    /\ call_to_client[client_to_call[c]] = c

\* the step changes no entry of client c or of its call
KeepsClient(c) ==
    LET k == client_to_call[c] IN
    /\ c \in call_freeswitch_clients'
    /\ c \in DOMAIN client_to_call' /\ client_to_call'[c] = k
    /\ k \in DOMAIN call_to_client' /\ call_to_client'[k] = c
    /\ k \in DOMAIN call_audio_buffers => /\ k \in DOMAIN call_audio_buffers'
                                          /\ call_audio_buffers'[k] = call_audio_buffers[k]
    /\ k \in DOMAIN call_audio_configs => /\ k \in DOMAIN call_audio_configs'
                                          /\ call_audio_configs'[k] = call_audio_configs[k]
    /\ k \in DOMAIN call_output_buffers => /\ k \in DOMAIN call_output_buffers'
                                           /\ call_output_buffers'[k] = call_output_buffers[k]

\* after the step no map holds client c or its call k
DropsClient(c, k) ==
    /\ c \notin call_freeswitch_clients'
    /\ c \notin DOMAIN client_to_call'
    /\ k \notin DOMAIN call_to_client' \cup DOMAIN call_audio_buffers'
                \cup DOMAIN call_audio_configs' \cup DOMAIN call_output_buffers'

\* C37: across a cleanup call a registered telephony client whose socket is
\* open and whose mappings are consistent keeps its socket entry, both
\* mapping directions, its inbound buffer, downstream buffer and descriptor
\* as they were; a registered client whose peer has closed loses its socket
\* entry and every entry of its call.
C37_CleanupRemovesOnlyDeadClients ==
    [][Cleanup
       => \A c \in Conns :
             ConsistentClient(c)
             => IF open[c] THEN KeepsClient(c)
                ELSE DropsClient(c, client_to_call[c])]_vars

\* C38: the teardown of a telephony client's handler leaves no downstream
\* buffer for its call, and no step creates a downstream buffer for a call
\* id that is not registered: after a call's handler has finished teardown
\* no downstream buffer exists for the call, whatever the reader was doing.
C38_NoBufferAfterTeardown ==
    [][/\ \A c \in Conns :
             (pc[c] \in {"c_recv", "c_send"} /\ pc'[c] = "done")
             => local_id[c] \notin DOMAIN call_output_buffers'
       /\ \A k \in DOMAIN call_output_buffers' :
             k \notin DOMAIN call_to_client => k \in DOMAIN call_output_buffers]_vars

\* the frames of client c, by their number, among the segments of bytes
SegsOf(c, bytes) ==
    {bytes[i].k : i \in {j \in 1..Len(bytes) : bytes[j].kind = "data" /\ bytes[j].src = c}}

\* the frames of client c in the payloads written to a backend socket for
\* its session
UpstreamDelivered(c) ==
    UNION {SegsOf(c, UpstreamPayload(b, local_id[c])) :
              b \in {d \in BackendSockets : path[d] = path[c]}}

\* the frames of client c in the inbound buffer of its session
UpstreamBuffered(c) ==
    IF local_id[c] \in DOMAIN InboundBuffers(c)
    THEN SegsOf(c, InboundBuffers(c)[local_id[c]]) ELSE {}

\* C39: while a client's handler is serving, every binary frame the client
\* has sent is either in the payload of a frame written to a backend socket
\* for its session or, after those, in the session's inbound buffer: none
\* is dropped, in particular not by a send to the backend that fails.
C39_UpstreamNeverDiscarded ==
    \A c \in ServingFrontends \cup ServingCalls :
        /\ UpstreamDelivered(c) \cup UpstreamBuffered(c) = 0..(nsent[c] - 1)
        /\ \A i \in UpstreamDelivered(c) : \A j \in UpstreamBuffered(c) : i < j

\* the registry of its route holds client c: its socket, both directions of
\* its mapping, its inbound buffer and, on /call, its descriptor
ConsistentSession(c) ==
    LET id == local_id[c] IN
    IF path[c] = "proxy"
    THEN /\ c \in frontend_clients
         /\ c \in DOMAIN client_to_session /\ client_to_session[c] = id
         /\ id \in DOMAIN session_to_client /\ session_to_client[id] = c
         /\ id \in DOMAIN session_audio_buffers
    ELSE /\ c \in call_freeswitch_clients
         /\ c \in DOMAIN client_to_call /\ client_to_call[c] = id
         /\ id \in DOMAIN call_to_client /\ call_to_client[id] = c
         /\ id \in DOMAIN call_audio_buffers
         /\ id \in DOMAIN call_audio_configs

\* the registry of its route holds client c after the step: its socket, both
\* directions of its mapping, its inbound buffer and, on /call, its descriptor
StaysRegistered(c) ==
    LET id == local_id[c] IN
    IF path[c] = "proxy"
    THEN /\ c \in frontend_clients'
         /\ c \in DOMAIN client_to_session' /\ client_to_session'[c] = id
         /\ id \in DOMAIN session_to_client' /\ session_to_client'[id] = c
         /\ id \in DOMAIN session_audio_buffers'
    ELSE /\ c \in call_freeswitch_clients'
         /\ c \in DOMAIN client_to_call' /\ client_to_call'[c] = id
         /\ id \in DOMAIN call_to_client' /\ call_to_client'[id] = c
         /\ id \in DOMAIN call_audio_buffers'
         /\ id \in DOMAIN call_audio_configs'

\* C40: when the send of an upstream frame from a client handler to the
\* backend socket raises, the handler is back in its receive loop after the
\* step and the registry still holds the client's socket, both directions
\* of its mapping, its buffer and its descriptor.
C40_BackendFailureKeepsClient ==
    [][\A c \in Conns :
          (/\ pc[c] \in {"f_send", "c_send"}
           /\ pc'[c] # pc[c]
           /\ ~open[pending[c].to]
           /\ ConsistentSession(c))
          => /\ pc'[c] \in {"f_recv", "c_recv"}
             /\ StaysRegistered(c)]_vars

====
